---- MODULE Spec2Model ----
(***************************************************************************)
(* A model of the markdown-to-docx converter of the Export to Word plugin  *)
(* (class MarkdownToDocxConverter, src/CHANGELOG.md lines 224-1748).       *)
(*                                                                         *)
(* Text is modelled character by character: a string is a sequence of      *)
(* one-character strings, a document is the sequence of its lines          *)
(* (markdown.split('\n')).  The converter instance is one object with the  *)
(* fields of lines 225-231; every convert call is an asynchronous process  *)
(* that owns its locals (the frames of parseMarkdown) and shares the       *)
(* instance fields.  JavaScript runs one call at a time until it reaches   *)
(* an await on real input/output: `running` names the call that holds the  *)
(* thread.                                                                 *)
(***************************************************************************)
EXTENDS Integers, Sequences, FiniteSets, TLC

(***************************************************************************)
(* Strings                                                                 *)
(***************************************************************************)

\* JavaScript's \s, over the characters the documents of this model use.
IsWs(c) == c \in {" ", "\n", "\t"}

IsDigit(c) == c \in {"0", "1", "2", "3", "4", "5", "6", "7", "8", "9"}

Min(a, b) == IF a <= b THEN a ELSE b

Max(a, b) == IF a >= b THEN a ELSE b

\* s.slice(n): the characters of s after the first n.
Drop(s, n) == SubSeq(s, n + 1, Len(s))

\* s.slice(0, n)
Take(s, n) == SubSeq(s, 1, Min(n, Len(s)))

\* The number of leading characters of s that satisfy \s.
RECURSIVE LeadWs(_)
LeadWs(s) == IF s # <<>> /\ IsWs(Head(s)) THEN 1 + LeadWs(Tail(s)) ELSE 0

RECURSIVE TrailWs(_)
TrailWs(s) ==
    IF s # <<>> /\ IsWs(s[Len(s)]) THEN 1 + TrailWs(SubSeq(s, 1, Len(s) - 1)) ELSE 0

\* String.prototype.trim
Trim(s) ==
    LET a == LeadWs(s)
    IN  IF a = Len(s) THEN <<>> ELSE SubSeq(s, a + 1, Len(s) - TrailWs(s))

\* String.prototype.startsWith / endsWith
StartsWith(s, p) == Len(s) >= Len(p) /\ SubSeq(s, 1, Len(p)) = p

EndsWith(s, p) == Len(s) >= Len(p) /\ SubSeq(s, Len(s) - Len(p) + 1, Len(s)) = p

\* The least of a set of positions, or 0 when there is none.
FirstOf(positions) ==
    IF positions = {} THEN 0 ELSE CHOOSE k \in positions : \A j \in positions : k <= j

\* The first position >= from at which p occurs in s, or 0 (indexOf, 1-based).
IndexFrom(s, p, from) ==
    FirstOf({k \in from..(Len(s) - Len(p) + 1) : SubSeq(s, k, k + Len(p) - 1) = p})

Includes(s, p) == IndexFrom(s, p, 1) # 0

\* s with its first occurrence of p removed (String.replace with a literal
\* pattern and the empty replacement).
RemoveFirst(s, p) ==
    LET k == IndexFrom(s, p, 1)
    IN  IF k = 0 \/ p = <<>> THEN s
        ELSE SubSeq(s, 1, k - 1) \o SubSeq(s, k + Len(p), Len(s))

\* Array.prototype.join
RECURSIVE Join(_, _)
Join(parts, sep) ==
    IF parts = <<>> THEN <<>>
    ELSE IF Len(parts) = 1 THEN parts[1]
    ELSE parts[1] \o sep \o Join(Tail(parts), sep)

\* String.prototype.split on a one-character separator.
RECURSIVE Split(_, _)
Split(s, c) ==
    LET k == IndexFrom(s, <<c>>, 1)
    IN  IF k = 0 THEN <<s>>
        ELSE <<SubSeq(s, 1, k - 1)>> \o Split(Drop(s, k), c)

\* The number of leading characters of s that are in the set cs.
RECURSIVE LeadIn(_, _)
LeadIn(s, cs) == IF s # <<>> /\ Head(s) \in cs THEN 1 + LeadIn(Tail(s), cs) ELSE 0

\* s without the characters that satisfy \s: s.replace(/\s/g, '').
RECURSIVE StripWs(_)
StripWs(s) ==
    IF s = <<>> THEN <<>>
    ELSE IF IsWs(Head(s)) THEN StripWs(Tail(s))
    ELSE <<Head(s)>> \o StripWs(Tail(s))

\* Number.prototype.toString for 0..99.
Digit(d) == <<"0", "1", "2", "3", "4", "5", "6", "7", "8", "9">>[d + 1]

NumToString(n) == IF n < 10 THEN <<Digit(n)>> ELSE <<Digit(n \div 10), Digit(n % 10)>>

(***************************************************************************)
(* State                                                                   *)
(***************************************************************************)
VARIABLES
    settings,             \* this.settings, set by the constructor
    obsidianFonts,        \* this.obsidianFonts
    filename,             \* this.filename
    resourceLoader,       \* this.resourceLoader
    footnoteDefinitions,  \* this.footnoteDefinitions
    usedFootnotes,        \* this.usedFootnotes
    platform,             \* navigator.platform.toLowerCase()
    calls,                \* the convert calls: arguments, locals, position
    running,              \* the call that holds the thread, or 0
    emitted,              \* the runs of the last style request
    probe,                \* the arguments whose conversions are compared
    probeOut,             \* the results seen so far for those arguments, each
                          \* with how the call before it ended
    exports,              \* the runs of exportToWord: file, position, steps taken
    vault                 \* the folders and the files written of the vault

vars == <<settings, obsidianFonts, filename, resourceLoader, footnoteDefinitions,
          usedFootnotes, platform, calls, running, emitted, probe, probeOut, exports,
          vault>>

(***************************************************************************)
(* Fonts and the style resolver                                            *)
(***************************************************************************)

\* The characters of the font names of this model.
FontText(f) ==
    CASE f = "" -> <<>>
      [] f = " " -> <<" ">>
      [] f = "??" -> <<"?", "?">>
      [] f = "a??" -> <<"a", "?", "?">>
      [] f = "undefined" -> <<"u", "n", "d", "e", "f", "i", "n", "e", "d">>
      [] f = "Arial" -> <<"A", "r", "i", "a", "l">>
      [] f = "Inter" -> <<"I", "n", "t", "e", "r">>
      [] f = "Menlo" -> <<"M", "e", "n", "l", "o">>
      [] f = "SF Mono" -> <<"S", "F", " ", "M", "o", "n", "o">>
      [] f = "Courier New" -> <<"C", "o", "u", "r", "i", "e", "r", " ", "N", "e", "w">>

\* The test every font fallback repeats (lines 293, 993, 1003, 1366, 1371,
\* 1383, 1390): !f || f.trim() === '' || f === 'undefined' || f === '??' ||
\* f.includes('??').  An absent value is modelled as "".
InvalidText(f, text) ==
    \/ f = ""
    \/ Trim(text) = <<>>
    \/ f = "undefined"
    \/ f = "??"
    \/ Includes(text, <<"?", "?">>)

InvalidFont(f) == InvalidText(f, FontText(f))

\* A font, or the fallback when the test rejects it.
ValidFont(f, fallback) == IF InvalidFont(f) THEN fallback ELSE f

\* The fallback as it would be without the platform test: always Courier New.
getPlatformMonospaceFontM == "Courier New"

\* getPlatformMonospaceFont (lines 346-355)
getPlatformMonospaceFont ==
    IF Includes(platform, <<"m", "a", "c">>) THEN "SF Mono"
    ELSE IF Includes(platform, <<"w", "i", "n">>) THEN "Courier New"
    ELSE "Courier New"

\* useObsidianAppearance && this.obsidianFonts
UseAppearance == settings.useObsidianAppearance /\ obsidianFonts.present

\* The empty TextStyle {}.
NoStyle ==
    [bold |-> FALSE, italic |-> FALSE, strikethrough |-> FALSE, code |-> FALSE,
     highlight |-> FALSE, underline |-> FALSE, color |-> "", superScript |-> FALSE,
     subScript |-> FALSE, codeBlock |-> FALSE]

\* The font of a run that sets none: it inherits the paragraph style's.
NoFont == "(none)"

\* A TextRun.  fn is not a field of the run: it records the footnote label a
\* superscript number was produced for, and is <<>> for every other run.
Run(text, font, size, style) ==
    [text |-> text, font |-> font, size |-> size,
     bold |-> style.bold \/ style.code, italics |-> style.italic,
     strike |-> style.strikethrough, underline |-> style.underline,
     highlight |-> style.highlight, color |-> style.color,
     superScript |-> style.superScript, subScript |-> style.subScript,
     code |-> style.code, break |-> FALSE, fn |-> <<>>]

\* new TextRun({ text, bold }) without font or size.
BareRun(text, bold) ==
    Run(text, NoFont, 0, [NoStyle EXCEPT !.bold = bold])

\* new TextRun({ text: '', break: 1 })
BreakRun == [BareRun(<<>>, FALSE) EXCEPT !.break = TRUE]

\* The monospace font of createTextRun (lines 1359-1385).
MonospaceFont ==
    ValidFont(IF UseAppearance
              THEN ValidFont(obsidianFonts.monospaceFont, getPlatformMonospaceFont)
              ELSE getPlatformMonospaceFont,
              "Courier New")

\* The text font of createTextRun (lines 1359-1380).
TextFont ==
    IF UseAppearance THEN ValidFont(obsidianFonts.textFont, settings.defaultFontFamily)
    ELSE settings.defaultFontFamily

BodyFontSize ==
    IF UseAppearance THEN obsidianFonts.baseFontSize ELSE settings.defaultFontSize

\* createTextRun (lines 1354-1440)
createTextRun(text, style) ==
    Run(text,
        ValidFont(IF style.code THEN MonospaceFont ELSE TextFont,
                  IF style.code THEN "Courier New" ELSE settings.defaultFontFamily),
        BodyFontSize * 2, style)

(***************************************************************************)
(* Blocks                                                                  *)
(***************************************************************************)

\* A Paragraph or Table of the block list.  type names what the scanner
\* made it for; level is the heading level, quote depth or list level;
\* rows and aligns belong to a table; data, width and height to an image.
Block(type, level, runs) ==
    [type |-> type, level |-> level, runs |-> runs, rows |-> <<>>,
     aligns |-> <<>>, data |-> "", width |-> 0, height |-> 0]

\* new Paragraph({ children: [] }) and new Paragraph({ text: '' })
BlankParagraph == Block("blank", 0, <<>>)

(***************************************************************************)
(* Footnote references and inline formatting                               *)
(***************************************************************************)

\* Array.prototype.indexOf, 1-based, 0 when absent.
IndexOf(seq, x) ==
    IF \E i \in 1..Len(seq) : seq[i] = x
    THEN CHOOSE i \in 1..Len(seq) : seq[i] = x /\ \A j \in 1..(i - 1) : seq[j] # x
    ELSE 0

\* createFootnoteRun (lines 1442-1450) on the list `used` in place of
\* this.usedFootnotes: the run and the list afterwards.
createFootnoteRun(label, used) ==
    LET found  == IndexOf(used, label)
        number == IF found = 0 THEN Len(used) + 1 ELSE found
    IN  [run  |-> [createTextRun(NumToString(number),
                                 [NoStyle EXCEPT !.superScript = TRUE])
                   EXCEPT !.fn = label],
         used |-> IF found = 0 THEN Append(used, label) ELSE used]

\* The start of the leftmost match of /\[\^([^\]]+)\]/ at or after `from`,
\* or 0.
RECURSIVE NextRef(_, _)
NextRef(s, from) ==
    LET p == IndexFrom(s, <<"[", "^">>, from)
        q == IF p = 0 THEN 0 ELSE IndexFrom(s, <<"]">>, p + 2)
    IN  IF p = 0 \/ q = 0 THEN 0
        ELSE IF q > p + 2 THEN p
        ELSE NextRef(s, p + 1)

\* The loop of createTextRunsFromString (lines 1162-1172) from position
\* `last` + 1 on.
RECURSIVE RefLoop(_, _, _, _)
\* The runs of one pass before those of the passes after it.
RefJoin(text, fr, rest) ==
    [runs |-> text \o <<fr.run>> \o rest.runs, used |-> rest.used]

\* One pass for the match from p to q (lines 1163-1170).
RefPass(content, last, p, q, style, fr) ==
    RefJoin(IF p - 1 > last
            THEN <<createTextRun(SubSeq(content, last + 1, p - 1), style)>>
            ELSE <<>>,
            fr, RefLoop(content, q, style, fr.used))

\* The pass for the match at p, or the end of the loop when p is 0 (lines
\* 1171-1173).
RefAt(content, last, p, q, style, used) ==
    IF p = 0
    THEN [runs |-> IF last < Len(content)
                   THEN <<createTextRun(Drop(content, last), style)>>
                   ELSE <<>>,
          used |-> used]
    ELSE RefPass(content, last, p, q, style,
                 createFootnoteRun(SubSeq(content, p + 2, q - 1), used))

RefEnd(content, last, p, style, used) ==
    RefAt(content, last, p, IF p = 0 THEN 0 ELSE IndexFrom(content, <<"]">>, p + 2),
          style, used)

RefLoop(content, last, style, used) ==
    RefEnd(content, last, NextRef(content, last + 1), style, used)

\* createTextRunsFromString (lines 1149-1175)
createTextRunsFromString(content, style, allowFootnotes, used) ==
    IF content = <<>> THEN [runs |-> <<>>, used |-> used]
    ELSE IF ~allowFootnotes
    THEN [runs |-> <<createTextRun(content, style)>>, used |-> used]
    ELSE RefLoop(content, 0, style, used)

(***************************************************************************)
(* The DOM of an HTML fragment and its runs                                *)
(*                                                                         *)
(* DOMParser.parseFromString(html, 'text/html') for fragments whose tags   *)
(* are a, object, br and elements that are closed in the order they were   *)
(* opened: the tree construction of the HTML standard, in which an object  *)
(* element puts a marker on the list of active formatting elements, so     *)
(* that an a element in it does not close the a element around it.         *)
(***************************************************************************)

Letters == {"a", "b", "c", "d", "e", "f", "g", "h", "i", "j", "k", "l", "m", "n",
            "o", "p", "q", "r", "s", "t", "u", "v", "w", "x", "y", "z"}

TextTag == <<"#", "t", "e", "x", "t">>

TagA == <<"a">>

TagObject == <<"o", "b", "j", "e", "c", "t">>

TagBr == <<"b", "r">>

TagBody == <<"b", "o", "d", "y">>

Element(tag, href) == [tag |-> tag, href |-> href, text |-> <<>>, children |-> <<>>]

TextNode(text) == [tag |-> TextTag, href |-> <<>>, text |-> text, children |-> <<>>]

HrefIs == <<"h", "r", "e", "f", "=", "\"">>

\* The value of the href attribute that starts at position h of the body of
\* a tag and ends before position e.
HrefTo(body, h, e) ==
    IF h # 0 /\ e # 0 THEN SubSeq(body, h + Len(HrefIs), e - 1) ELSE <<>>

HrefFrom(body, h) ==
    HrefTo(body, h, IF h = 0 THEN 0 ELSE IndexFrom(body, <<"\"">>, h + Len(HrefIs)))

\* The tag that ends at q, of the body `body` whose name has n letters.
TagNamed(q, closing, body, n) ==
    [ok   |-> q # 0 /\ n >= 1 /\ (Len(body) = n \/ body[n + 1] = " "),
     end  |-> q,
     kind |-> IF closing THEN "close" ELSE "open",
     name |-> Take(body, n),
     href |-> HrefFrom(body, IndexFrom(body, HrefIs, n + 1)),
     text |-> <<>>]

TagWithBody(q, closing, body) == TagNamed(q, closing, body, LeadIn(body, Letters))

TagInside(q, inside, closing) ==
    TagWithBody(q, closing, IF closing THEN Tail(inside) ELSE inside)

TagOf(q, inside) == TagInside(q, inside, inside # <<>> /\ Head(inside) = "/")

TagTo(html, p, q) == TagOf(q, IF q = 0 THEN <<>> ELSE SubSeq(html, p + 1, q - 1))

\* The tag that starts with the < at position p: whether there is one,
\* where it ends, and its name and href attribute.
HtmlTag(html, p) == TagTo(html, p, IndexFrom(html, <<">">>, p + 1))

TextToken(text) ==
    [ok |-> TRUE, end |-> 0, kind |-> "text", name |-> <<>>, href |-> <<>>, text |-> text]

\* The tags and the texts between them, in order.
RECURSIVE HtmlTokens(_)
TagTokens(html, tag) ==
    IF ~tag.ok THEN <<TextToken(<<"<">>)>> \o HtmlTokens(Tail(html))
    ELSE <<tag>> \o HtmlTokens(Drop(html, tag.end))

TokensAt(html, p) ==
    IF p = 0 THEN <<TextToken(html)>>
    ELSE IF p > 1 THEN <<TextToken(Take(html, p - 1))>> \o HtmlTokens(Drop(html, p - 1))
    ELSE TagTokens(html, HtmlTag(html, 1))

HtmlTokens(html) ==
    IF html = <<>> THEN <<>> ELSE TokensAt(html, IndexFrom(html, <<"<">>, 1))

\* A node made a child of the current node, the last of the stack of open
\* elements; a text joins the text node before it.
AppendChild(stack, node) ==
    LET kids == stack[Len(stack)].children
    IN  [stack EXCEPT ![Len(stack)].children =
            IF node.tag = TextTag /\ kids # <<>> /\ kids[Len(kids)].tag = TextTag
            THEN [kids EXCEPT ![Len(kids)].text = @ \o node.text]
            ELSE Append(kids, node)]

\* The open elements above the n-th popped off the stack.
RECURSIVE CloseTo(_, _)
CloseTo(stack, n) ==
    IF Len(stack) <= n \/ Len(stack) <= 1 THEN stack
    ELSE CloseTo(AppendChild(SubSeq(stack, 1, Len(stack) - 1), stack[Len(stack)]), n)

\* The topmost open element of a tag, 0 when there is none.
LastOpen(stack, tag) ==
    IF \E k \in 1..Len(stack) : stack[k].tag = tag
    THEN CHOOSE k \in 1..Len(stack) :
            stack[k].tag = tag /\ \A j \in (k + 1)..Len(stack) : stack[j].tag # tag
    ELSE 0

\* The a element of the list of active formatting elements after its last
\* marker, 0 when there is none.
ActiveAnchor(stack) ==
    IF LastOpen(stack, TagA) > LastOpen(stack, TagObject) THEN LastOpen(stack, TagA) ELSE 0

\* The stack of open elements after one token.
TreeStep(stack, token) ==
    CASE token.kind = "text" -> AppendChild(stack, TextNode(token.text))
      [] token.kind = "open" /\ token.name = TagBr ->
            AppendChild(stack, Element(TagBr, <<>>))
      [] token.kind = "open" /\ token.name = TagA ->
            Append(IF ActiveAnchor(stack) # 0
                   THEN CloseTo(stack, ActiveAnchor(stack) - 1) ELSE stack,
                   Element(TagA, token.href))
      [] token.kind = "open" /\ token.name \notin {TagA, TagBr} ->
            Append(stack, Element(token.name, token.href))
      [] token.kind = "close" /\ token.name = TagA ->
            IF ActiveAnchor(stack) # 0
            THEN CloseTo(stack, ActiveAnchor(stack) - 1) ELSE stack
      [] token.kind = "close" /\ token.name # TagA ->
            IF LastOpen(stack, token.name) > 1
               /\ LastOpen(stack, token.name) >= LastOpen(stack, TagObject)
            THEN CloseTo(stack, LastOpen(stack, token.name) - 1) ELSE stack

\* The tree after the tokens from made.i on, made.stack being the stack of
\* open elements before them.
RECURSIVE TreeFrom(_, _)
TreeFrom(tokens, made) ==
    IF made.i > Len(tokens) THEN CloseTo(made.stack, 1)
    ELSE TreeFrom(tokens, [i |-> made.i + 1,
                           stack |-> TreeStep(made.stack, tokens[made.i])])

BuildTree(tokens, stack) == TreeFrom(tokens, [i |-> 1, stack |-> stack])

WrapperOpen == <<"<", "w", "r", "a", "p", "p", "e", "r", ">">>

WrapperClose == <<"<", "/", "w", "r", "a", "p", "p", "e", "r", ">">>

\* parser.parseFromString(`<wrapper>${html}</wrapper>`, 'text/html')
\* .body.childNodes (lines 1182-1183, 785-787)
WrappedNodes(html) ==
    BuildTree(HtmlTokens(WrapperOpen \o html \o WrapperClose),
              <<Element(TagBody, <<>>)>>)[1].children

\* textContent
RECURSIVE TextContent(_)
TextContent(nodes) ==
    IF nodes = <<>> THEN <<>>
    ELSE (IF Head(nodes).tag = TextTag THEN Head(nodes).text
          ELSE TextContent(Head(nodes).children))
         \o TextContent(Tail(nodes))

DEFAULT_HYPERLINK_COLOR == "0563C1"

\* new ExternalHyperlink({ link, children })
ExternalHyperlink(link, children) == [link |-> link, children |-> children]

\* run instanceof TextRun
IsTextRun(run) == "link" \notin DOMAIN run

TextRunsOf(runs) == SelectSeq(runs, IsTextRun)

\* The style of the children of an element (lines 1213-1262); no class of a
\* span names a syntax color.
TagStyle(tag, baseStyle) ==
    CASE tag \in {<<"s", "t", "r", "o", "n", "g">>, <<"b">>} -> [baseStyle EXCEPT !.bold = TRUE]
      [] tag \in {<<"e", "m">>, <<"i">>} -> [baseStyle EXCEPT !.italic = TRUE]
      [] tag \in {<<"s">>, <<"s", "t", "r", "i", "k", "e">>, <<"d", "e", "l">>} ->
            [baseStyle EXCEPT !.strikethrough = TRUE]
      [] tag = <<"u">> -> [baseStyle EXCEPT !.underline = TRUE]
      [] tag = <<"c", "o", "d", "e">> -> [baseStyle EXCEPT !.code = TRUE]
      [] tag = <<"m", "a", "r", "k">> -> [baseStyle EXCEPT !.highlight = TRUE]
      [] tag = <<"s", "u", "p">> -> [baseStyle EXCEPT !.superScript = TRUE]
      [] tag = <<"s", "u", "b">> -> [baseStyle EXCEPT !.subScript = TRUE]
      [] OTHER -> baseStyle

\* The a case of parseHtmlNodes (lines 1250-1260) on the runs of the
\* children.
AnchorRuns(childRuns, href) ==
    IF href # <<>> /\ Len(TextRunsOf(childRuns.runs)) > 0
    THEN [childRuns EXCEPT !.runs = <<ExternalHyperlink(href, TextRunsOf(childRuns.runs))>>]
    ELSE childRuns

\* parseHtmlNodes (lines 1194-1269)
RECURSIVE parseHtmlNodes(_, _, _, _)
NodeRuns(node, baseStyle, allowFootnotes, used) ==
    IF node.tag = TextTag
    THEN createTextRunsFromString(node.text, baseStyle, allowFootnotes, used)
    ELSE IF node.tag = TagBr THEN [runs |-> <<BreakRun>>, used |-> used]
    ELSE IF node.tag = TagA
    THEN AnchorRuns(parseHtmlNodes(node.children, baseStyle, allowFootnotes, used),
                    node.href)
    ELSE parseHtmlNodes(node.children, TagStyle(node.tag, baseStyle), allowFootnotes, used)

\* What the forEach holds after a node: the index of the next one, the runs
\* pushed so far and the used labels.
AfterNode(made, got) ==
    [i |-> made.i + 1, runs |-> made.runs \o got.runs, used |-> got.used]

\* The forEach of parseHtmlNodes (line 1197) from the node at made.i on.
RECURSIVE NodesFrom(_, _, _, _)
NodesFrom(nodes, made, baseStyle, allowFootnotes) ==
    IF made.i > Len(nodes) THEN [runs |-> made.runs, used |-> made.used]
    ELSE NodesFrom(nodes,
                   AfterNode(made, NodeRuns(nodes[made.i], baseStyle, allowFootnotes,
                                            made.used)),
                   baseStyle, allowFootnotes)

parseHtmlNodes(nodes, baseStyle, allowFootnotes, used) ==
    NodesFrom(nodes, [i |-> 1, runs |-> <<>>, used |-> used], baseStyle, allowFootnotes)

\* The fallback of lines 1185-1190 and 864-873 on the runs made.
OrTextContent(made, fallback, baseStyle, allowFootnotes) ==
    IF Len(made.runs) = 0 /\ Len(Trim(fallback)) > 0
    THEN createTextRunsFromString(fallback, baseStyle, allowFootnotes, made.used)
    ELSE made

\* parseHtmlStringToRuns (lines 1177-1192)
NodesToRuns(nodes, baseStyle, allowFootnotes, used) ==
    OrTextContent(parseHtmlNodes(nodes, baseStyle, allowFootnotes, used),
                  TextContent(nodes), baseStyle, allowFootnotes)

parseHtmlStringToRuns(html, baseStyle, allowFootnotes, used) ==
    IF html = <<>> THEN [runs |-> <<>>, used |-> used]
    ELSE NodesToRuns(WrappedNodes(html), baseStyle, allowFootnotes, used)

\* The children of the paragraph convertHtmlBlockToParagraphs makes of a line
\* that holds no block element: buildParagraphsFromHtmlNode on the wrapper
\* element (lines 785-787, 863-877).
WrapperRuns(nodes, used) ==
    OrTextContent(parseHtmlNodes(nodes[1].children, NoStyle, TRUE, used),
                  Trim(TextContent(nodes)), NoStyle, TRUE)

HtmlLineRuns(html, used) == WrapperRuns(WrappedNodes(html), used)

\* The end of createPlainTextRuns (lines 1043-1047) on the runs made so far.
PlainRuns(made, hasHardBreak) ==
    IF hasHardBreak THEN [made EXCEPT !.runs = Append(@, BreakRun)]
    ELSE IF Len(made.runs) > 0 THEN made
    ELSE [made EXCEPT !.runs = <<createTextRun(<<>>, NoStyle)>>]

\* createPlainTextRuns (lines 1037-1048)
createPlainTextRuns(text, used) ==
    LET hasHardBreak == EndsWith(text, <<" ", " ">>)
        content == IF hasHardBreak THEN SubSeq(text, 1, Len(text) - 2) ELSE text
    IN  PlainRuns(IF Len(content) > 0
                  THEN createTextRunsFromString(content, NoStyle, TRUE, used)
                  ELSE [runs |-> <<>>, used |-> used],
                  hasHardBreak)

\* An inline token of markdown-it; nesting is 1 for an opening token, -1
\* for a closing one.
Token(type, nesting, content, href) ==
    [type |-> type, nesting |-> nesting, content |-> content, href |-> href]

\* The ] that closes a link label that starts at position k, at bracket
\* depth `depth`, or 0.
RECURSIVE LabelEnd(_, _, _)
LabelEnd(s, k, depth) ==
    IF k > Len(s) THEN 0
    ELSE IF s[k] = "[" THEN LabelEnd(s, k + 1, depth + 1)
    ELSE IF s[k] = "]"
    THEN IF depth = 0 THEN k ELSE LabelEnd(s, k + 1, depth - 1)
    ELSE LabelEnd(s, k + 1, depth)

\* The ) that ends the inline link [label](destination) whose [ is at
\* position p, or 0 when there is no such link there.
LinkEnd(s, p) ==
    LET e == LabelEnd(s, p + 1, 0)
        c == IF e # 0 /\ Len(s) > e /\ s[e + 1] = "("
             THEN IndexFrom(s, <<")">>, e + 2) ELSE 0
    IN  IF c # 0 /\ \A k \in (e + 2)..(c - 1) : s[k] \notin {" ", "\t", "(", "<"}
        THEN c ELSE 0

IsLinkOpen(token) == token.type = "link_open"

\* The text token of the characters from..to, none when there are none.
TextTokens(s, from, to) ==
    IF to >= from THEN <<Token("text", 0, SubSeq(s, from, to), <<>>)>> ELSE <<>>

\* this.md.parseInline(text, env)[0].children (line 1343-1344), markdown-it's
\* inline tokens with html: true and linkify: false (lines 233-238), for a
\* text whose markup is inline links, HTML tags and spans of **, ~~ and ==
\* that are not nested in a span of the same delimiter: a link is
\* link_open, the tokens of its label and link_close, unless the label
\* holds a link; a span is its opening token, the tokens of its text and
\* its closing token; each HTML tag is one html_inline token; the rest is
\* text.  Scan(s, k,
\* from) is the tokens from position `from` on when the characters from..k-1
\* are text.
RECURSIVE Scan(_, _, _)

\* The delimiters of strong emphasis, strikethrough and highlight (the
\* mark plugin), with the names of their tokens.
Delimiters ==
    {[mark |-> <<"*", "*">>, name |-> "strong"],
     [mark |-> <<"~", "~">>, name |-> "s"],
     [mark |-> <<"=", "=">>, name |-> "mark"]}

\* The name of the delimiter at position k that opens a span: it is
\* followed by a character that is no whitespace, and the same delimiter
\* comes again after a character that is no whitespace.  "" when there is
\* none.
SpanEnd(s, k, mark) ==
    IF Len(s) >= k + 2 /\ SubSeq(s, k, k + 1) = mark /\ ~IsWs(s[k + 2])
          /\ s[k + 2] # mark[1]
    THEN LET c == IndexFrom(s, mark, k + 3)
         IN  IF c # 0 /\ ~IsWs(s[c - 1]) THEN c ELSE 0
    ELSE 0

SpanName(s, k) ==
    IF \E d \in Delimiters : SpanEnd(s, k, d.mark) # 0
    THEN (CHOOSE d \in Delimiters : SpanEnd(s, k, d.mark) # 0).name
    ELSE ""

MarkOf(name) == (CHOOSE d \in Delimiters : d.name = name).mark

SpanTokens(s, k, from, c, name) ==
    TextTokens(s, from, k - 1)
    \o <<Token(name \o "_open", 1, <<>>, <<>>)>>
    \o Scan(SubSeq(s, k + 2, c - 1), 1, 1)
    \o <<Token(name \o "_close", -1, <<>>, <<>>)>>
    \o Scan(s, c + 2, c + 2)

LinkTokens(s, k, from, e, c, inner) ==
    IF \E j \in 1..Len(inner) : IsLinkOpen(inner[j])
    THEN Scan(s, k + 1, from)
    ELSE TextTokens(s, from, k - 1)
         \o <<Token("link_open", 1, <<>>, SubSeq(s, e + 2, c - 1))>>
         \o inner
         \o <<Token("link_close", -1, <<>>, <<>>)>>
         \o Scan(s, c + 1, c + 1)

\* The character at k when it opens no link and no span: an HTML tag or
\* text.
ScanTag(s, k, from, tag) ==
    IF s[k] = "<" /\ tag.ok
    THEN TextTokens(s, from, k - 1)
         \o <<Token("html_inline", 0, SubSeq(s, k, tag.end), <<>>)>>
         \o Scan(s, tag.end + 1, tag.end + 1)
    ELSE Scan(s, k + 1, from)

\* The character at k when it opens no link; name is the span it opens.
ScanSpan(s, k, from, name) ==
    IF name # ""
    THEN SpanTokens(s, k, from, SpanEnd(s, k, MarkOf(name)), name)
    ELSE ScanTag(s, k, from, HtmlTag(s, k))

LinkAt(s, k, from, e, c) ==
    LinkTokens(s, k, from, e, c, Scan(SubSeq(s, k + 1, e - 1), 1, 1))

\* The character at k; c is the end of the link it opens, 0 for none.
ScanLink(s, k, from, c) ==
    IF c # 0 THEN LinkAt(s, k, from, LabelEnd(s, k + 1, 0), c)
    ELSE ScanSpan(s, k, from, SpanName(s, k))

\* The characters a link, a span or a tag starts with; any other character
\* is text.
Specials == {"[", "<"} \cup {d.mark[1] : d \in Delimiters}

\* The scan at the first special character k at or after its position, 0
\* when there is none.
ScanAt(s, k, from) ==
    IF k = 0 THEN TextTokens(s, from, Len(s))
    ELSE ScanLink(s, k, from, IF s[k] = "[" THEN LinkEnd(s, k) ELSE 0)

Scan(s, k, from) == ScanAt(s, FirstOf({j \in k..Len(s) : s[j] \in Specials}), from)

MdParseInline(text) == Scan(text, 1, 1)

\* findClosingTokenIndex (lines 1134-1147); FirstClose(tokens, i, depth) is
\* its loop from index i on.
RECURSIVE FirstClose(_, _, _)
FirstClose(tokens, i, depth) ==
    IF i > Len(tokens) THEN 0
    ELSE IF depth + tokens[i].nesting = 0 THEN i
    ELSE FirstClose(tokens, i + 1, depth + tokens[i].nesting)

findClosingTokenIndex(tokens, startIndex) ==
    IF tokens[startIndex].nesting # 1 \/ FirstClose(tokens, startIndex + 1, 1) = 0
    THEN startIndex
    ELSE FirstClose(tokens, startIndex + 1, 1)

\* hyperlinkStyle (lines 1086-1090)
HyperlinkStyle(baseStyle) ==
    [baseStyle EXCEPT !.underline = TRUE,
                      !.color = IF @ = "" THEN DEFAULT_HYPERLINK_COLOR ELSE @]

\* The end of the link_open case (lines 1092-1099) on the runs of the inner
\* tokens.
LinkRuns(childRuns, href, allowHyperlinks) ==
    IF allowHyperlinks /\ href # <<>> /\ Len(TextRunsOf(childRuns.runs)) > 0
    THEN [childRuns EXCEPT !.runs =
            <<ExternalHyperlink(href, TextRunsOf(childRuns.runs))>>
            \o SelectSeq(childRuns.runs, LAMBDA r : ~IsTextRun(r))]
    ELSE childRuns

\* nextStyle of the case of the opening tokens of style spans (lines
\* 1103-1118)
SpanStyle(type, baseStyle) ==
    CASE type = "strong_open" -> [baseStyle EXCEPT !.bold = TRUE]
      [] type = "em_open" -> [baseStyle EXCEPT !.italic = TRUE]
      [] type = "s_open" -> [baseStyle EXCEPT !.strikethrough = TRUE]
      [] type = "mark_open" -> [baseStyle EXCEPT !.highlight = TRUE]
      [] type = "sup_open" -> [baseStyle EXCEPT !.superScript = TRUE]
      [] type = "sub_open" -> [baseStyle EXCEPT !.subScript = TRUE]

SpanOpeners ==
    {"strong_open", "em_open", "s_open", "mark_open", "sup_open", "sub_open"}

\* The index the loop goes on after: that of the closing token for a link
\* and for a style span (lines 1080, 1119), that of the token itself
\* otherwise.
CloseOf(tokens, i) ==
    IF tokens[i].type = "link_open" \/ tokens[i].type \in SpanOpeners
    THEN findClosingTokenIndex(tokens, i) ELSE i

\* What the loop holds after a token: the index of the next one, the runs
\* pushed so far and the used labels.
AfterToken(made, got, close) ==
    [i |-> close + 1, runs |-> made.runs \o got.runs, used |-> got.used]

RECURSIVE tokensToRuns(_, _, _, _, _)
\* One case of the switch (lines 1054-1129) on the token at i, whose inner
\* tokens end before `close`.
TokenRuns(tokens, i, close, baseStyle, allowFootnotes, allowHyperlinks, used) ==
    IF tokens[i].type = "link_open"
    THEN LinkRuns(tokensToRuns(SubSeq(tokens, i + 1, close - 1),
                               HyperlinkStyle(baseStyle), allowFootnotes, FALSE, used),
                  tokens[i].href, allowHyperlinks)
    ELSE IF tokens[i].type \in SpanOpeners
    THEN tokensToRuns(SubSeq(tokens, i + 1, close - 1),
                      SpanStyle(tokens[i].type, baseStyle),
                      allowFootnotes, allowHyperlinks, used)
    ELSE IF tokens[i].type = "text"
    THEN createTextRunsFromString(tokens[i].content, baseStyle, allowFootnotes, used)
    ELSE IF tokens[i].type = "html_inline"
    THEN parseHtmlStringToRuns(tokens[i].content, baseStyle, allowFootnotes, used)
    ELSE [runs |-> <<>>, used |-> used]

\* The loop of tokensToRuns (line 1053) from the token at made.i on.
RECURSIVE TokensFrom(_, _, _, _, _)
TokensFrom(tokens, made, baseStyle, allowFootnotes, allowHyperlinks) ==
    IF made.i > Len(tokens) THEN [runs |-> made.runs, used |-> made.used]
    ELSE TokensFrom(tokens,
                    AfterToken(made,
                               TokenRuns(tokens, made.i, CloseOf(tokens, made.i), baseStyle,
                                         allowFootnotes, allowHyperlinks, made.used),
                               CloseOf(tokens, made.i)),
                    baseStyle, allowFootnotes, allowHyperlinks)

\* tokensToRuns (lines 1050-1132) over text, html_inline, link and style
\* span tokens.
tokensToRuns(tokens, baseStyle, allowFootnotes, allowHyperlinks, used) ==
    TokensFrom(tokens, [i |-> 1, runs |-> <<>>, used |-> used],
               baseStyle, allowFootnotes, allowHyperlinks)

\* return runs.length > 0 ? runs : this.createPlainTextRuns(text) (line 1351)
OrPlainText(made, text) ==
    IF Len(made.runs) > 0 THEN made ELSE createPlainTextRuns(text, made.used)

\* parseInlineFormatting (lines 1337-1352); allowFootnotes is
\* options?.allowFootnotes !== false.  createPlainTextRuns never returns an
\* empty list, so its calls at lines 1339, 1349 and 1351 are the one of
\* OrPlainText.
InlineRuns(tokens, text, allowFootnotes, used) ==
    OrPlainText(IF settings.preserveFormatting /\ Len(tokens) > 0
                THEN tokensToRuns(tokens, NoStyle, allowFootnotes, TRUE, used)
                ELSE [runs |-> <<>>, used |-> used],
                text)

parseInlineFormatting(text, allowFootnotes, used) ==
    InlineRuns(MdParseInline(text), text, allowFootnotes, used)

(***************************************************************************)
(* Headings, code blocks, tables                                           *)
(***************************************************************************)

\* The i-th element of an array, "" when the array is shorter (undefined).
At(seq, i) == IF i \in 1..Len(seq) THEN seq[i] ELSE ""

\* The i-th element of an array of numbers, 0 when the array is shorter.
NumAt(seq, i) == IF i \in 1..Len(seq) THEN seq[i] ELSE 0

\* The i-th colour of an array of colour texts, the empty text when the
\* array is shorter (undefined).
ColorAt(seq, i) == IF i \in 1..Len(seq) THEN seq[i] ELSE <<>>

\* The character at position k of s, "" past its end.
CharAt(s, k) == IF k \in 1..Len(s) THEN s[k] ELSE ""

\* The position after the digits \d+ takes from position k (greedy).
RECURSIVE DigitsEnd(_, _)
DigitsEnd(s, k) == IF IsDigit(CharAt(s, k)) THEN DigitsEnd(s, k + 1) ELSE k

\* The position after the white space \s* takes from position k.
RECURSIVE WsEnd(_, _)
WsEnd(s, k) == IF IsWs(CharAt(s, k)) THEN WsEnd(s, k + 1) ELSE k

\* parseInt(digits, 10)
RECURSIVE ParseInt(_)
ParseInt(digits) ==
    IF digits = <<>> THEN 0
    ELSE 10 * ParseInt(SubSeq(digits, 1, Len(digits) - 1))
         + (CHOOSE d \in 0..9 : Digit(d) = digits[Len(digits)])

\* The groups (\d+),\s*(\d+),\s*(\d+) of the pattern of line 916 from
\* position d on, where a group is to begin; `groups` are those read so far,
\* e is the position after the digits at d.  <<>> when the pattern does not
\* match.
RECURSIVE Groups(_, _, _)
GroupAt(rgb, d, e, groups) ==
    IF e = d THEN <<>>
    ELSE IF Len(groups) = 2 THEN Append(groups, SubSeq(rgb, d, e - 1))
    ELSE IF CharAt(rgb, e) # "," THEN <<>>
    ELSE Groups(rgb, WsEnd(rgb, e + 1), Append(groups, SubSeq(rgb, d, e - 1)))

Groups(rgb, d, groups) == GroupAt(rgb, d, DigitsEnd(rgb, d), groups)

\* The three groups of /rgba?\((\d+),\s*(\d+),\s*(\d+)/ matched at position
\* p of rgb, <<>> when the pattern does not match there (line 916).
RgbMatchAt(rgb, p) ==
    IF Len(rgb) >= p + 3 /\ SubSeq(rgb, p, p + 3) = <<"r", "g", "b", "(">>
    THEN Groups(rgb, p + 4, <<>>)
    ELSE IF Len(rgb) >= p + 4 /\ SubSeq(rgb, p, p + 4) = <<"r", "g", "b", "a", "(">>
    THEN Groups(rgb, p + 5, <<>>)
    ELSE <<>>

\* rgb.match(...) (line 916): the groups of the first match from position
\* p on, <<>> for null.
RECURSIVE RgbMatch(_, _)
MatchOr(found, rgb, p) == IF found # <<>> THEN found ELSE RgbMatch(rgb, p + 1)

RgbMatch(rgb, p) ==
    IF p > Len(rgb) THEN <<>> ELSE MatchOr(RgbMatchAt(rgb, p), rgb, p)

\* a | b for two numbers from 0 to 2^31 - 1.
RECURSIVE BitOr(_, _)
BitOr(a, b) ==
    IF a = 0 THEN b
    ELSE IF b = 0 THEN a
    ELSE 2 * BitOr(a \div 2, b \div 2) + (IF a % 2 = 1 \/ b % 2 = 1 THEN 1 ELSE 0)

\* Number.prototype.toString(16) for n >= 0, a sequence of characters.
RECURSIVE ToString16(_)
ToString16(n) ==
    IF n < 16
    THEN <<<<"0", "1", "2", "3", "4", "5", "6", "7", "8", "9",
             "a", "b", "c", "d", "e", "f">>[n + 1]>>
    ELSE ToString16(n \div 16) \o ToString16(n % 16)

\* String.prototype.padStart(length, pad) for a pad of one character.
RECURSIVE PadStart(_, _, _)
PadStart(s, length, pad) ==
    IF Len(s) >= length THEN s ELSE PadStart(<<pad>> \o s, length, pad)

\* toUpperCase on a character toString(16) makes.
UpperCase(c) ==
    CASE c = "a" -> "A" [] c = "b" -> "B" [] c = "c" -> "C"
      [] c = "d" -> "D" [] c = "e" -> "E" [] c = "f" -> "F"
      [] OTHER -> c

\* String.prototype.toUpperCase
ToUpperCase(s) == [k \in 1..Len(s) |-> UpperCase(s[k])]

\* The string of a sequence of characters.
RECURSIVE Text(_)
Text(s) == IF s = <<>> THEN "" ELSE s[1] \o Text(Tail(s))

\* The colour text 'inherit'.
Inherit == <<"i", "n", "h", "e", "r", "i", "t">>

\* ((r << 16) | (g << 8) | b).toString(16).padStart(6, '0') (line 924) for
\* the groups of a match.  r << 16 stays below 2^31 for the channel values
\* 0..255 of a computed colour, the only ones a theme snapshot holds.
HexOf(match) ==
    PadStart(ToString16(BitOr(BitOr(ParseInt(match[1]) * 65536,
                                    ParseInt(match[2]) * 256),
                              ParseInt(match[3]))), 6, "0")

\* Lines 917-924 for the result of the match: "" stands for undefined.
MatchHex(match) == IF match = <<>> THEN "" ELSE Text(ToUpperCase(HexOf(match)))

\* As rgbToHex below, without the upper-casing of line 924.
rgbToHexM(rgb) ==
    IF rgb = Inherit \/ rgb = <<>> \/ RgbMatch(rgb, 1) = <<>> THEN ""
    ELSE Text(HexOf(RgbMatch(rgb, 1)))

\* rgbToHex (lines 913-925): rgb is a sequence of characters, the result a
\* string, "" for undefined.
rgbToHex(rgb) ==
    IF rgb = Inherit \/ rgb = <<>> THEN "" ELSE MatchHex(RgbMatch(rgb, 1))

\* Lines 941-944 of createHeading: black for no colour and for white.
HeadingColor(color) ==
    IF color = "" \/ color = "FFFFFF" \/ color = "inherit" THEN "000000" ELSE color

\* standardHeadingSizes (lines 955-962)
standardHeadingSizes == <<16, 14, 13, 12, 11, 11>>

\* createHeading (lines 927-982): a heading paragraph with one run.
createHeading(text, level) ==
    LET fontSize   == IF UseAppearance
                      THEN IF NumAt(obsidianFonts.headingSizes, level) # 0
                           THEN NumAt(obsidianFonts.headingSizes, level)
                           ELSE obsidianFonts.baseFontSize
                      ELSE IF NumAt(standardHeadingSizes, level) # 0
                           THEN NumAt(standardHeadingSizes, level)
                           ELSE standardHeadingSizes[1]
        fontFamily == IF UseAppearance
                      THEN IF At(obsidianFonts.headingFonts, level) # ""
                           THEN At(obsidianFonts.headingFonts, level)
                           ELSE obsidianFonts.textFont
                      ELSE settings.defaultFontFamily
        color      == IF UseAppearance
                      THEN HeadingColor(rgbToHex(ColorAt(obsidianFonts.headingColors,
                                                         level)))
                      ELSE "000000"
    IN  Block("heading", level,
              <<Run(text, fontFamily, fontSize * 2,
                    [NoStyle EXCEPT !.bold = TRUE, !.color = color])>>)

\* createCodeBlock (lines 984-1035) for a language highlight.js does not
\* know, or none: one paragraph per line of lines.join('\n').split('\n').
createCodeBlock(lines) ==
    LET plainLines == Split(Join(lines, <<"\n">>), "\n")
    IN  [k \in 1..Len(plainLines) |->
            Block("code", 0,
                  <<createTextRun(plainLines[k],
                                  [NoStyle EXCEPT !.code = TRUE, !.codeBlock = TRUE])>>)]

\* The cells of one table row through parseInlineFormatting, left to right
\* (lines 1297-1318); `made` holds the cells made so far and the list of
\* used labels after them.
RECURSIVE RowCellsFrom(_, _)
AddCell(made, cell) == [cells |-> Append(made.cells, cell.runs), used |-> cell.used]

RowCellsFrom(row, made) ==
    IF Len(made.cells) = Len(row) THEN made
    ELSE RowCellsFrom(row, AddCell(made,
                                   parseInlineFormatting(row[Len(made.cells) + 1], TRUE,
                                                         made.used)))

RowCells(row, used) == RowCellsFrom(row, [cells |-> <<>>, used |-> used])

\* The rows of a table, top to bottom (lines 1296-1325); `made` holds the
\* rows made so far and the list of used labels after them.
RECURSIVE TableRowsFrom(_, _)
AddRow(made, row) == [rows |-> Append(made.rows, row.cells), used |-> row.used]

TableRowsFrom(rows, made) ==
    IF Len(made.rows) = Len(rows) THEN made
    ELSE TableRowsFrom(rows, AddRow(made, RowCells(rows[Len(made.rows) + 1], made.used)))

TableRows(rows, used) == TableRowsFrom(rows, [rows |-> <<>>, used |-> used])

\* The table between two empty paragraphs (lines 1327-1334); level holds
\* columnCount.
TableBlocks(made, columnCount, alignments) ==
    [blocks |-> <<BlankParagraph,
                  [Block("table", columnCount, <<>>)
                   EXCEPT !.rows = made.rows, !.aligns = alignments],
                  BlankParagraph>>,
     used |-> made.used]

\* createTable with the column count taken from the last row.
createTableM(rows, alignments, used) ==
    IF Len(rows) = 0 THEN [blocks |-> <<>>, used |-> used]
    ELSE TableBlocks(TableRows(rows, used), Len(rows[Len(rows)]), alignments)

\* createTable (lines 1289-1335): nothing for no rows.
createTable(rows, alignments, used) ==
    IF Len(rows) = 0 THEN [blocks |-> <<>>, used |-> used]
    ELSE TableBlocks(TableRows(rows, used), Len(rows[1]), alignments)

(***************************************************************************)
(* The footnote preprocessor and the footnote section                      *)
(***************************************************************************)

\* /^\[\^([^\]]+)\]:\s*(.*)$/ (line 1703): 0 when the line does not match,
\* else the position of the ] that ends the label.
DefinitionMatch(line) ==
    LET q == IF StartsWith(line, <<"[", "^">>) THEN IndexFrom(line, <<"]">>, 3) ELSE 0
    IN  IF q > 3 /\ Len(line) > q /\ line[q + 1] = ":" THEN q ELSE 0

\* A continuation as it would be with one whitespace character required.
IsContinuationM(line) ==
    LET w == LeadWs(line)
    IN  w >= 1 /\ (Len(line) > w \/ w >= 2)

\* /^\s{2,}.+/ (line 1712)
IsContinuation(line) ==
    LET w == LeadWs(line)
    IN  w >= 2 /\ (Len(line) > w \/ w >= 3)

\* The lines from j on that continue a definition, trimmed.
RECURSIVE Continuations(_, _)
Continuations(lines, j) ==
    IF j <= Len(lines) /\ IsContinuation(lines[j])
    THEN <<Trim(lines[j])>> \o Continuations(lines, j + 1)
    ELSE <<>>

\* Map.prototype.set
MapSet(m, k, v) == [x \in DOMAIN m \cup {k} |-> IF x = k THEN v ELSE m[x]]

\* Map.prototype.get, <<>> when absent: an absent and an empty definition
\* are both falsy at line 1736.
MapGet(m, k) == IF k \in DOMAIN m THEN m[k] ELSE <<>>

\* The loop of extractFootnotes (lines 1701-1722) from line i on.
RECURSIVE ExtractLoop(_, _, _, _)
ExtractLoop(lines, i, filteredLines, definitions) ==
    IF i > Len(lines) THEN [filteredLines |-> filteredLines, definitions |-> definitions]
    ELSE LET line == lines[i]
             q    == DefinitionMatch(line)
         IN  IF q # 0
             THEN LET label == Trim(SubSeq(line, 3, q - 1))
                      rest  == Drop(line, q + 1)
                      text  == Drop(rest, LeadWs(rest))
                      parts == (IF text # <<>> THEN <<Trim(text)>> ELSE <<>>)
                               \o Continuations(lines, i + 1)
                      j     == i + 1 + Len(Continuations(lines, i + 1))
                  IN  ExtractLoop(lines, j, filteredLines,
                                  MapSet(definitions, label, Trim(Join(parts, <<" ">>))))
             ELSE ExtractLoop(lines, i + 1, Append(filteredLines, line), definitions)

\* extractFootnotes (lines 1696-1725) of the document whose lines are
\* `lines`; content is the lines of the returned text.
extractFootnotes(lines) ==
    LET got == ExtractLoop(lines, 1, <<>>, <<>>)
    IN  [content |-> Split(Join(got.filteredLines, <<"\n">>), "\n"),
         definitions |-> got.definitions]

MissingFootnote(label) ==
    <<"[", "M", "i", "s", "s", "i", "n", "g", " ", "f", "o", "o", "t", "n", "o", "t",
      "e", ":", " ">> \o label \o <<"]">>

\* One entry of the footnote section (lines 1737-1745); level holds its
\* number.
FootnoteEntry(index, made) ==
    [block |-> Block("footnote", index,
                     <<BareRun(NumToString(index) \o <<".", " ">>, TRUE)>> \o made.runs),
     used  |-> made.used]

\* The forEach of appendFootnotes (lines 1735-1746) over the labels the list
\* held when it began; `made` holds the entries made so far and the list as
\* the callbacks leave it.
RECURSIVE EntriesFrom(_, _)
AddEntry(made, entry) ==
    [blocks |-> Append(made.blocks, entry.block), used |-> entry.used]

EntriesFrom(labels, made) ==
    IF Len(made.blocks) >= Len(labels) THEN made
    ELSE EntriesFrom(labels,
             AddEntry(made,
                 FootnoteEntry(Len(made.blocks) + 1,
                     parseInlineFormatting(
                         IF MapGet(footnoteDefinitions, labels[Len(made.blocks) + 1]) # <<>>
                         THEN MapGet(footnoteDefinitions, labels[Len(made.blocks) + 1])
                         ELSE MissingFootnote(labels[Len(made.blocks) + 1]),
                         FALSE, made.used))))

FootnoteEntries(labels, used) == EntriesFrom(labels, [blocks |-> <<>>, used |-> used])

Footnotes == <<"F", "o", "o", "t", "n", "o", "t", "e", "s">>

\* The section under its heading (lines 1732-1733).
FootnoteSection(made) ==
    [made EXCEPT !.blocks = <<BlankParagraph, createHeading(Footnotes, 2)>> \o @]

\* appendFootnotes (lines 1727-1747): the blocks it pushes and the list of
\* used labels afterwards.
appendFootnotes(used) ==
    IF Len(used) = 0 THEN [blocks |-> <<>>, used |-> used]
    ELSE FootnoteSection(FootnoteEntries(used, used))

(***************************************************************************)
(* The line patterns of the block scanner                                  *)
(*                                                                         *)
(* The documents of this model hold no upper-case letters, so the i flag   *)
(* of the patterns changes nothing.                                        *)
(***************************************************************************)

\* \w
IsWord(c) == c \in Letters \/ IsDigit(c) \/ c = "_"

AllIn(s, cs) == \A k \in 1..Len(s) : s[k] \in cs

\* The backtick character, which a TLA+ string cannot hold.
BQ == "bq"

\* line.trim().match(/^(```|~~~)(.*)$/) (line 426)
FenceMatch(line) ==
    \/ StartsWith(Trim(line), <<BQ, BQ, BQ>>)
    \/ StartsWith(Trim(line), <<"~", "~", "~">>)

RuleChars == {"-", "*", "_"}

\* isHorizontalRule (lines 453-455)
IsHorizontalRule(trimmedLine) ==
    /\ Len(StripWs(trimmedLine)) >= 3
    /\ AllIn(StripWs(trimmedLine), RuleChars)
    /\ Len(trimmedLine) >= 1
    /\ AllIn(trimmedLine, RuleChars \cup {" ", "\n", "\t"})
    /\ Len(trimmedLine) >= 3

\* line.trim().startsWith('|') && line.trim().endsWith('|') (line 478)
IsTableLine(line) ==
    StartsWith(Trim(line), <<"|">>) /\ EndsWith(Trim(line), <<"|">>)

\* line.split('|').slice(1, -1).map(cell => cell.trim()) (line 485)
TableCells(line) ==
    LET parts == Split(line, "|")
    IN  [k \in 1..(Len(parts) - 2) |-> Trim(parts[k + 1])]

\* /^:?-+:?$/ (line 488)
IsAlignCell(cell) ==
    LET a == IF cell # <<>> /\ Head(cell) = ":" THEN Tail(cell) ELSE cell
        b == IF a # <<>> /\ a[Len(a)] = ":" THEN SubSeq(a, 1, Len(a) - 1) ELSE a
    IN  b # <<>> /\ AllIn(b, {"-"})

\* The alignment of one cell of the alignment row (lines 490-492).
CellAlignment(cell) ==
    IF StartsWith(cell, <<":">>) /\ EndsWith(cell, <<":">>) THEN "center"
    ELSE IF EndsWith(cell, <<":">>) THEN "right"
    ELSE "left"

DetailsOpen == <<"<", "d", "e", "t", "a", "i", "l", "s">>

DetailsClose == <<"<", "/", "d", "e", "t", "a", "i", "l", "s", ">">>

SummaryOpen == <<"<", "s", "u", "m", "m", "a", "r", "y">>

SummaryClose == <<"<", "/", "s", "u", "m", "m", "a", "r", "y", ">">>

\* /^<details/i.test(trimmed) (lines 509, 706)
IsDetailsOpen(trimmed) == StartsWith(trimmed, DetailsOpen)

\* /^<\/details>/i.test(trimmed) (line 709)
IsDetailsClose(trimmed) == StartsWith(trimmed, DetailsClose)

\* The tag name /^<([a-zA-Z][\w:-]*)\b/ captures (line 773), <<>> when the
\* pattern does not match: the longest run of tag characters after the <,
\* cut back to its last word character.
RECURSIVE CutToWord(_)
CutToWord(s) ==
    IF s = <<>> \/ IsWord(s[Len(s)]) THEN s ELSE CutToWord(SubSeq(s, 1, Len(s) - 1))

TagName(line) ==
    IF Len(line) >= 2 /\ line[1] = "<" /\ line[2] \in Letters
    THEN CutToWord(Take(Tail(line), LeadIn(Tail(line), Letters \cup {"0", "1", "2",
                        "3", "4", "5", "6", "7", "8", "9", "_", ":", "-"})))
    ELSE <<>>

\* isHtmlBlockLine (lines 763-782)
isHtmlBlockLine(line) ==
    /\ StartsWith(line, <<"<">>)
    /\ ~(Len(line) >= 3 /\ line[2] = "/" /\ IsWord(line[3]))
    /\ ~(Len(line) >= 2 /\ line[2] \in {"!", "?"})
    /\ TagName(line) # <<>>
    /\ TagName(line) # Tail(DetailsOpen)
    /\ TagName(line) # Tail(SummaryOpen)

\* textContent of the parsed fragment: the text outside the tags.
RECURSIVE HtmlText(_)
HtmlText(html) ==
    LET p == IndexFrom(html, <<"<">>, 1)
        q == IF p = 0 THEN 0 ELSE IndexFrom(html, <<">">>, p + 1)
    IN  IF p = 0 \/ q = 0 THEN html
        ELSE SubSeq(html, 1, p - 1) \o HtmlText(Drop(html, q))

\* /^!\[([^\]]*)\]\((.+)\)$/ (line 527): 0 when the line does not match, else
\* the position of the ] that ends the alt text.
StandardImageMatch(trimmedLine) ==
    LET p == IF StartsWith(trimmedLine, <<"!", "[">>)
             THEN IndexFrom(trimmedLine, <<"]">>, 3) ELSE 0
    IN  IF /\ p # 0
           /\ Len(trimmedLine) >= p + 3
           /\ trimmedLine[p + 1] = "("
           /\ trimmedLine[Len(trimmedLine)] = ")"
        THEN p ELSE 0

\* /^!\[\[([^\]]+)\]\]$/ (line 541)
WikiImageMatch(trimmedLine) ==
    /\ StartsWith(trimmedLine, <<"!", "[", "[">>)
    /\ EndsWith(trimmedLine, <<"]", "]">>)
    /\ Len(trimmedLine) >= 6
    /\ ~Includes(SubSeq(trimmedLine, 4, Len(trimmedLine) - 2), <<"]">>)

\* The number /^(\d+)(?:px)?$/i captures (lines 1558, 1584), 0 when the
\* pattern does not match or the number is 0: both leave the width unset
\* for buildImageParagraph (line 1641).
WidthOf(text) ==
    LET d == LeadIn(text, {"0", "1", "2", "3", "4", "5", "6", "7", "8", "9"})
    IN  IF d >= 1 /\ Drop(text, d) \in {<<>>, <<"p", "x">>}
        THEN ParseInt(Take(text, d)) ELSE 0

\* parseEmbeddedImageLink (lines 1550-1568)
parseEmbeddedImageLink(rawLink) ==
    LET parts      == Split(rawLink, "|")
        targetPart == Trim(parts[1])
        sanitized  == Trim(Split(Split(targetPart, "#")[1], "^")[1])
    IN  [target |-> sanitized,
         widthOverride |-> IF Len(parts) > 1
                           THEN WidthOf(Trim(Join(Tail(parts), <<"|">>))) ELSE 0]

\* The start of the match of /\s+"[^"]*"\s*$/ in a trimmed text (line 1574),
\* 0 when there is none.
TitleStart(targetPart) ==
    LET n == Len(targetPart)
        o == IF n >= 2 /\ targetPart[n] = "\""
             THEN CHOOSE k \in 0..(n - 1) :
                     /\ k = 0 \/ targetPart[k] = "\""
                     /\ \A j \in (k + 1)..(n - 1) : targetPart[j] # "\""
             ELSE 0
    IN  IF o >= 2 /\ IsWs(targetPart[o - 1])
        THEN o - TrailWs(SubSeq(targetPart, 1, o - 1)) ELSE 0

\* The first segment that is a width (lines 1583-1589), 0 when none is.
RECURSIVE FirstWidth(_)
FirstWidth(segments) ==
    IF segments = <<>> THEN 0
    ELSE IF LET t == Trim(Head(segments))
                d == LeadIn(t, {"0", "1", "2", "3", "4", "5", "6", "7", "8", "9"})
            IN  d >= 1 /\ Drop(t, d) \in {<<>>, <<"p", "x">>}
         THEN WidthOf(Trim(Head(segments)))
    ELSE FirstWidth(Tail(segments))

\* parseStandardImageTarget (lines 1570-1592)
parseStandardImageTarget(rawTarget) ==
    LET trimmed    == Trim(rawTarget)
        t          == TitleStart(trimmed)
        targetPart == IF t = 0 THEN trimmed ELSE Trim(Take(trimmed, t - 1))
        segments   == Split(targetPart, "|")
    IN  [target |-> Trim(segments[1]), widthOverride |-> FirstWidth(Tail(segments))]

\* /^https?:\/\//i.test(trimmedTarget) (line 1610)
IsHttp(target) ==
    \/ StartsWith(target, <<"h", "t", "t", "p", ":", "/", "/">>)
    \/ StartsWith(target, <<"h", "t", "t", "p", "s", ":", "/", "/">>)

\* The text /\s+(.+)$/ captures after a marker that ends at position m:
\* <<>> when it does not match.  The whitespace is taken greedily and gives
\* one character back when nothing follows it.
AfterMarker(line, m) ==
    LET rest == Drop(line, m)
        w    == LeadWs(rest)
    IN  IF w = 0 THEN <<>>
        ELSE IF Len(rest) > w THEN Drop(rest, w)
        ELSE IF w >= 2 THEN <<rest[w]>>
        ELSE <<>>

\* line.match(/^(#{1,6})\s+(.+)$/) (line 561): the level, 0 for no match.
HeadingLevel(line) ==
    LET h == LeadIn(line, {"#"})
    IN  IF h \in 1..6 /\ AfterMarker(line, h) # <<>> THEN h ELSE 0

HeadingText(line) == AfterMarker(line, LeadIn(line, {"#"}))

\* lines[i + 1].match(/^:\s+(.+)$/) (lines 571-572): the definition, <<>>
\* for no match.
DefinitionText(next) ==
    IF StartsWith(next, <<":">>) THEN AfterMarker(next, 1) ELSE <<>>

\* line.match(/^(\s*>+\s*)(.*)$/) (line 587): the number of > of the marker,
\* 0 for no match.
QuoteDepth(line) == LeadIn(Drop(line, LeadWs(line)), {">"})

QuoteText(line) ==
    LET rest == Drop(line, LeadWs(line) + QuoteDepth(line))
    IN  Drop(rest, LeadWs(rest))

ListMarkers == {"-", "*", "+"}

\* line.match(/^(\s*)[-*+]\s+\[( |x|X)\]\s+(.*)$/) (line 613): the position
\* of the ] of the checkbox, 0 for no match.
TaskMatch(line) ==
    LET w    == LeadWs(line)
        rest == Drop(line, w + 1)
        g    == LeadWs(rest)
    IN  IF /\ Len(line) > w
           /\ line[w + 1] \in ListMarkers
           /\ g >= 1
           /\ Len(rest) >= g + 4
           /\ rest[g + 1] = "["
           /\ rest[g + 2] \in {" ", "x", "X"}
           /\ rest[g + 3] = "]"
           /\ IsWs(rest[g + 4])
        THEN w + 1 + g + 3 ELSE 0

\* The level as it would be without the clamp: Math.floor(indent / 2).
ListLevelM(indent) == indent \div 2

\* Math.min(Math.floor(indent / 2), 2) (lines 618, 649, 667)
ListLevel(indent) == Min(indent \div 2, 2)

\* createNumbering (lines 1452-1530): the levels each reference declares.
createNumbering ==
    [numbered |-> {0, 1, 2}, bullet |-> {0, 1, 2}]

\* line.match(/^(\s*)([-*+])\s+(.+)$/) (line 642): the item's text, <<>> for
\* no match.
UnorderedText(line) ==
    LET w == LeadWs(line)
    IN  IF Len(line) > w /\ line[w + 1] \in ListMarkers
        THEN AfterMarker(line, w + 1) ELSE <<>>

\* line.match(/^(\s*)(\d+)\.\s+(.+)$/) (line 643): the item's text, <<>> for
\* no match.
OrderedText(line) ==
    LET w == LeadWs(line)
        d == LeadIn(Drop(line, w), {"0", "1", "2", "3", "4", "5", "6", "7", "8", "9"})
    IN  IF d >= 1 /\ Len(line) > w + d /\ line[w + d + 1] = "."
        THEN AfterMarker(line, w + d + 1) ELSE <<>>

(***************************************************************************)
(* parseDetailsBlock                                                       *)
(***************************************************************************)

\* The loop of parseDetailsBlock (lines 703-716) from line i on: the lines
\* collected and the position of the line it stopped at, Len(lines) + 1 when
\* it ran to the end.
RECURSIVE CollectDetails(_, _, _, _)
CollectDetails(lines, i, depth, collected) ==
    IF i > Len(lines) THEN [collected |-> collected, i |-> i]
    ELSE LET trimmed == Trim(lines[i])
             d       == depth + (IF IsDetailsOpen(trimmed) THEN 1 ELSE 0)
                              - (IF IsDetailsClose(trimmed) THEN 1 ELSE 0)
         IN  IF d = 0 THEN [collected |-> Append(collected, lines[i]), i |-> i]
             ELSE CollectDetails(lines, i + 1, d, Append(collected, lines[i]))

\* block.replace(/<details[^>]*>/i, '') (line 722)
RemoveDetailsTag(block) ==
    LET p == IndexFrom(block, DetailsOpen, 1)
        q == IF p = 0 THEN 0 ELSE IndexFrom(block, <<">">>, p + Len(DetailsOpen))
    IN  IF p = 0 \/ q = 0 THEN block
        ELSE SubSeq(block, 1, p - 1) \o Drop(block, q)

\* block.match(/<summary[^>]*>([\s\S]*?)<\/summary>/i) (line 719): the
\* first and last position of the match and of its group, all 0 for no match.
SummaryMatch(block) ==
    LET p == IndexFrom(block, SummaryOpen, 1)
        q == IF p = 0 THEN 0 ELSE IndexFrom(block, <<">">>, p + Len(SummaryOpen))
        r == IF q = 0 THEN 0 ELSE IndexFrom(block, SummaryClose, q + 1)
    IN  IF r = 0 THEN [from |-> 0, to |-> 0, textFrom |-> 0, textTo |-> 0]
        ELSE [from |-> p, to |-> r + Len(SummaryClose) - 1,
              textFrom |-> q + 1, textTo |-> r - 1]

Details == <<"D", "e", "t", "a", "i", "l", "s">>

\* parseDetailsBlock (lines 698-725): the summary text, the inner content
\* and the index of the line the scan goes on with.
parseDetailsBlock(lines, startIndex) ==
    LET got   == CollectDetails(lines, startIndex, 0, <<>>)
        block == Join(got.collected, <<"\n">>)
        m     == SummaryMatch(block)
        whole == IF m.from = 0 THEN <<>> ELSE SubSeq(block, m.from, m.to)
    IN  [summaryText |-> IF m.from = 0 THEN Details
                         ELSE Trim(SubSeq(block, m.textFrom, m.textTo)),
         innerContent |-> Trim(RemoveFirst(RemoveFirst(RemoveDetailsTag(block),
                                                       DetailsClose), whole)),
         nextIndex |-> got.i + 1]

\* innerContent.split('\n').map(line => '  ' + line) (line 752)
IndentLines(innerContent) ==
    LET ls == Split(innerContent, "\n")
    IN  [k \in 1..Len(ls) |-> <<" ", " ">> \o ls[k]]

(***************************************************************************)
(* parseMarkdown, one line at a time                                       *)
(***************************************************************************)

\* The locals of one activation of parseMarkdown (lines 411-420), i 1-based.
Frame(lines) ==
    [lines |-> lines, i |-> 1, inCodeBlock |-> FALSE, codeBlockContent |-> <<>>,
     inTable |-> FALSE, tableRows |-> <<>>, tableAlignments |-> <<>>,
     paragraphs |-> <<>>]

\* No await in this pass of the loop.
NoPending == [form |-> "none", loader |-> "none", target |-> <<>>, width |-> 0,
              label |-> <<>>]

\* An await of a promise that is already settled: the call gives way to what
\* else is ready to run, and nothing more.
Tick == [NoPending EXCEPT !.form = "tick"]

ImageNotFound(label) ==
    Block("placeholder", 0,
          <<BareRun(<<"[", "I", "m", "a", "g", "e", " ", "n", "o", "t", " ", "f", "o",
                      "u", "n", "d", ":", " ">> \o label \o <<"]">>, FALSE)>>)

\* What one pass of the loop body does: the frame and the used labels
\* afterwards, the lines of a nested parseMarkdown it calls (<<>> for none)
\* and what it awaits before the next pass.
Step(frame, used, push, pending) ==
    [frame |-> frame, used |-> used, push |-> push, pending |-> pending]

Push(f, blocks) == [f EXCEPT !.paragraphs = @ \o blocks]

Advance(f) == [f EXCEPT !.i = @ + 1]

\* The fence branch (lines 427-441).
FenceStep(f, used) ==
    IF f.inCodeBlock
    THEN Step(Advance([Push(f, createCodeBlock(f.codeBlockContent))
                       EXCEPT !.codeBlockContent = <<>>, !.inCodeBlock = FALSE]),
              used, <<>>, NoPending)
    ELSE Step(Advance([f EXCEPT !.inCodeBlock = TRUE]), used, <<>>, NoPending)

\* The table branch (lines 478-499).
TableStep(f, used) ==
    LET cells == TableCells(f.lines[f.i])
        g     == IF f.inTable THEN f
                 ELSE [f EXCEPT !.inTable = TRUE, !.tableRows = <<>>,
                                !.tableAlignments = <<>>]
    IN  Step(Advance(IF \A k \in 1..Len(cells) : IsAlignCell(cells[k])
                     THEN [g EXCEPT !.tableAlignments =
                                      [k \in 1..Len(cells) |-> CellAlignment(cells[k])]]
                     ELSE [g EXCEPT !.tableRows = Append(@, cells)]),
             used, <<>>, NoPending)

\* The summary paragraph (lines 731-748) and what follows it (lines 751-760).
\* The paragraph is put on the caller's list at once: nothing else is put on
\* that list until parseDetailsBlock returns.  "v" stands for the triangle.
SummaryStep(f, d, made) ==
    Step([Push(f, <<Block("summary", 0, <<BareRun(<<"v", " ">>, TRUE)>> \o made.runs)>>
               \o (IF d.innerContent # <<>> THEN <<>> ELSE <<BlankParagraph>>))
          EXCEPT !.i = d.nextIndex],
         made.used,
         IF d.innerContent # <<>> THEN IndentLines(d.innerContent) ELSE <<>>,
         IF d.innerContent # <<>> THEN NoPending ELSE Tick)

\* The block parseDetailsBlock cut out, through its summary.
DetailsBlockStep(f, used, d) ==
    SummaryStep(f, d, parseInlineFormatting(d.summaryText, TRUE, used))

\* The details branch (lines 509-514) with the part of parseDetailsBlock that
\* runs before the nested parseMarkdown (lines 699-752).
DetailsStep(f, used) == DetailsBlockStep(f, used, parseDetailsBlock(f.lines, f.i))

\* A paragraph of the runs made, when there are some.
HtmlParagraph(f, made) ==
    Step(Advance(IF made.runs = <<>> THEN f
                 ELSE Push(f, <<Block("paragraph", 0, made.runs)>>)),
         made.used, <<>>, NoPending)

\* The raw HTML branch (lines 517-524); convertHtmlBlockToParagraphs for a
\* fragment of elements without attributes: one paragraph of its text.
HtmlStep(f, used) ==
    HtmlParagraph(f, createTextRunsFromString(HtmlText(Trim(f.lines[f.i])), NoStyle,
                                              TRUE, used))

\* The ![alt](target) branch (lines 527-538) up to the await of
\* createStandardImageParagraph and loadImageData (lines 1594-1634).
StandardImageStep(f, used) ==
    LET t      == Trim(f.lines[f.i])
        p      == StandardImageMatch(t)
        alt    == SubSeq(t, 3, p - 1)
        raw    == SubSeq(t, p + 2, Len(t) - 1)
        parsed == parseStandardImageTarget(raw)
        label  == IF alt # <<>> THEN alt ELSE raw
        wait(form) == [form |-> form, loader |-> resourceLoader,
                       target |-> Trim(parsed.target),
                       width |-> parsed.widthOverride, label |-> label]
    IN  IF parsed.target = <<>>
        THEN Step(Advance(Push(f, <<ImageNotFound(label)>>)), used, <<>>, Tick)
        ELSE IF IsHttp(Trim(parsed.target)) THEN Step(f, used, <<>>, wait("http"))
        ELSE IF resourceLoader # "none" THEN Step(f, used, <<>>, wait("standard"))
        ELSE Step(Advance(Push(f, <<ImageNotFound(label)>>)), used, <<>>, Tick)

\* The ![[target]] branch (lines 541-551) up to the await of
\* createEmbeddedImageParagraph (lines 1532-1542).
WikiImageStep(f, used) ==
    LET t      == Trim(f.lines[f.i])
        raw    == SubSeq(t, 4, Len(t) - 2)
        parsed == parseEmbeddedImageLink(raw)
    IN  IF resourceLoader = "none" \/ parsed.target = <<>>
        THEN Step(Advance(Push(f, <<ImageNotFound(raw)>>)), used, <<>>, Tick)
        ELSE Step(f, used, <<>>,
                  [form |-> "wiki", loader |-> resourceLoader, target |-> parsed.target,
                   width |-> parsed.widthOverride, label |-> raw])

\* The paragraph of a text-bearing line: `lead` before the runs made of its
\* text, and the scan `lines` lines further.
TextParagraph(f, b, made) ==
    Step([Push(f, <<Block(b.type, b.level, b.lead \o made.runs)>>)
          EXCEPT !.i = @ + b.lines],
         made.used, <<>>, NoPending)

TextStep(f, used, b) == TextParagraph(f, b, parseInlineFormatting(b.text, TRUE, used))

\* The heading branch (lines 561-568).
HeadingStep(f, used) ==
    Step(Advance(Push(f, <<createHeading(HeadingText(f.lines[f.i]),
                                         HeadingLevel(f.lines[f.i]))>>)),
         used, <<>>, NoPending)

\* lines[i + 1] && /^:\s+/.test(lines[i + 1]) and the match of line 572.
IsDefinitionItem(f) ==
    LET trimmedLine == Trim(f.lines[f.i])
    IN  /\ trimmedLine # <<>>
        /\ ~StartsWith(trimmedLine, <<"#">>)
        /\ f.i + 1 <= Len(f.lines)
        /\ DefinitionText(f.lines[f.i + 1]) # <<>>

TextBlock(type, level, lead, text, lines) ==
    [type |-> type, level |-> level, lead |-> lead, text |-> text, lines |-> lines]

\* The branches of the lines that bear inline text (lines 571-687): what the
\* paragraph is, the runs before its text, its text and the lines it takes.
\* "x" and "o" stand for the checked and the empty checkbox glyph.
TextLine(f) ==
    LET line == f.lines[f.i]
    IN  IF IsDefinitionItem(f)
        THEN TextBlock("definition", 0, <<BareRun(Trim(line) \o <<":", " ">>, TRUE)>>,
                       DefinitionText(f.lines[f.i + 1]), 2)
        ELSE IF QuoteDepth(line) # 0
        THEN TextBlock("quote", QuoteDepth(line), <<>>, QuoteText(line), 1)
        ELSE IF TaskMatch(line) # 0
        THEN TextBlock("task", ListLevel(LeadWs(line)),
                       <<BareRun(<<IF line[TaskMatch(line) - 1] = " " THEN "o" ELSE "x",
                                   " ">>, FALSE)>>,
                       Drop(Drop(line, TaskMatch(line)),
                            LeadWs(Drop(line, TaskMatch(line)))), 1)
        ELSE IF UnorderedText(line) # <<>>
        THEN TextBlock("bullet", ListLevel(LeadWs(line)), <<>>, UnorderedText(line), 1)
        ELSE IF OrderedText(line) # <<>>
        THEN TextBlock("numbered", ListLevel(LeadWs(line)), <<>>, OrderedText(line), 1)
        ELSE TextBlock("paragraph", 0, <<>>, line, 1)

\* The branches after the table has been closed (lines 508-687).
RestStep(f, used) ==
    LET line        == f.lines[f.i]
        trimmedLine == Trim(line)
    IN  IF IsDetailsOpen(trimmedLine) THEN DetailsStep(f, used)
        ELSE IF isHtmlBlockLine(trimmedLine) THEN HtmlStep(f, used)
        ELSE IF StandardImageMatch(trimmedLine) # 0 THEN StandardImageStep(f, used)
        ELSE IF WikiImageMatch(trimmedLine) THEN WikiImageStep(f, used)
        ELSE IF trimmedLine = <<>>
        THEN Step(Advance(Push(f, <<BlankParagraph>>)), used, <<>>, NoPending)
        ELSE IF HeadingLevel(line) # 0 THEN HeadingStep(f, used)
        ELSE TextStep(f, used, TextLine(f))

\* The frame with the blocks made put on its list.
Made(f, made) == [frame |-> Push(f, made.blocks), used |-> made.used]

\* The end of a table (lines 500-506, 691-693).
CloseTable(f, used) ==
    Made([f EXCEPT !.inTable = FALSE, !.tableRows = <<>>, !.tableAlignments = <<>>],
         createTable(f.tableRows, f.tableAlignments, used))

\* After the loop (lines 690-695).
EndStep(f, used) ==
    IF f.inTable THEN CloseTable(f, used) ELSE [frame |-> f, used |-> used]

\* The branches below the table branch, on what the end of the table left.
AfterTable(c) == RestStep(c.frame, c.used)

\* One pass of the loop body of parseMarkdown (lines 423-687).
LineStep(f, used) ==
    LET line == f.lines[f.i]
    IN  IF FenceMatch(line) THEN FenceStep(f, used)
        ELSE IF f.inCodeBlock
        THEN Step(Advance([f EXCEPT !.codeBlockContent = Append(@, line)]),
                  used, <<>>, NoPending)
        ELSE IF IsHorizontalRule(Trim(line))
        THEN Step(Advance(Push(f, <<Block("rule", 0, <<>>)>>)), used, <<>>, NoPending)
        ELSE IF IsTableLine(line) THEN TableStep(f, used)
        ELSE AfterTable(IF f.inTable THEN CloseTable(f, used)
                        ELSE [frame |-> f, used |-> used])

(***************************************************************************)
(* Number arithmetic                                                       *)
(*                                                                         *)
(* A positive Number is held as its 53 significant bits m, the first of    *)
(* them 1, and the count pt of the bits before the binary point, which is  *)
(* below 1 for a value under 1: the value is m * 2^(pt - 53).              *)
(***************************************************************************)

\* The significant bits of a Number (IEEE 754 binary64).
Mantissa == 53

\* The bits of a natural number, the most significant first; none for 0.
RECURSIVE ToBits(_)
ToBits(n) == IF n = 0 THEN <<>> ELSE Append(ToBits(n \div 2), n % 2)

RECURSIVE FromBits(_)
FromBits(bits) ==
    IF bits = <<>> THEN 0
    ELSE 2 * FromBits(SubSeq(bits, 1, Len(bits) - 1)) + bits[Len(bits)]

\* The bits from the first 1 on.
RECURSIVE Normal(_, _)
Normal(bits, pt) ==
    IF bits # <<>> /\ Head(bits) = 0 THEN Normal(Tail(bits), pt - 1)
    ELSE [bits |-> bits, pt |-> pt]

\* One more than the number of the bits, which are not all 1.
IncBits(bits) ==
    LET z == CHOOSE k \in 1..Len(bits) :
                 bits[k] = 0 /\ \A j \in (k + 1)..Len(bits) : bits[j] = 1
    IN  [k \in 1..Len(bits) |-> IF k < z THEN bits[k] ELSE IF k = z THEN 1 ELSE 0]

\* Round to nearest, ties to even: the Number nearest to the value of the
\* normal bits n; sticky tells that the exact value has more after them.
RoundNormal(n, sticky) ==
    IF Len(n.bits) <= Mantissa
    THEN [m |-> n.bits \o [k \in 1..(Mantissa - Len(n.bits)) |-> 0], pt |-> n.pt]
    ELSE IF ~(/\ n.bits[Mantissa + 1] = 1
              /\ \/ sticky
                 \/ n.bits[Mantissa] = 1
                 \/ \E k \in (Mantissa + 2)..Len(n.bits) : n.bits[k] = 1)
    THEN [m |-> SubSeq(n.bits, 1, Mantissa), pt |-> n.pt]
    ELSE IF \A k \in 1..Mantissa : n.bits[k] = 1
    THEN [m |-> [k \in 1..Mantissa |-> IF k = 1 THEN 1 ELSE 0], pt |-> n.pt + 1]
    ELSE [m |-> IncBits(SubSeq(n.bits, 1, Mantissa)), pt |-> n.pt]

Square(x) == x * x

\* 2^k modulo d.
RECURSIVE Pow2Mod(_, _)
Pow2Mod(k, d) ==
    IF k = 0 THEN 1 % d
    ELSE (Square(Pow2Mod(k \div 2, d)) * (IF k % 2 = 1 THEN 2 ELSE 1)) % d

\* The first n bits of r / d after the binary point, for r < d < 4096, and
\* what is left to divide after them.
FracBits(r, d, n) ==
    [bits |-> [k \in 1..n |-> (2 * ((r * Pow2Mod(k - 1, d)) % d)) \div d],
     r |-> (r * Pow2Mod(n, d)) % d]

\* The Number a / b of two positive integers below 4096: the quotient has
\* at most 12 zero bits before its first 1, so that Mantissa + 14 bits after
\* the point hold the bits to keep and the bit that decides the rounding.
QuotientOf(int, frac) ==
    RoundNormal(Normal(int \o frac.bits, Len(int)), frac.r # 0)

Divide(a, b) == QuotientOf(ToBits(a \div b), FracBits(a % b, b, Mantissa + 14))

\* The n bits of a number below 2^n.
PadBits(v, n) == [k \in 1..n |-> (v \div 2^(n - k)) % 2]

\* The bits of bits * n for the Mantissa bits of a Number and n below 2048,
\* worked out in three parts of the bits.
MulParts(hi, mid, lo, size) ==
    ToBits(hi + (mid + lo \div size) \div size)
    \o PadBits((mid + lo \div size) % size, Mantissa \div 3)
    \o PadBits(lo % size, Mantissa \div 3)

MulBits(bits, n) ==
    MulParts(n * FromBits(SubSeq(bits, 1, Mantissa - 2 * (Mantissa \div 3))),
             n * FromBits(SubSeq(bits, Mantissa - 2 * (Mantissa \div 3) + 1,
                                 Mantissa - Mantissa \div 3)),
             n * FromBits(SubSeq(bits, Mantissa - Mantissa \div 3 + 1, Mantissa)),
             2^(Mantissa \div 3))

ProductOf(bits, x) == RoundNormal(Normal(bits, x.pt + Len(bits) - Mantissa), FALSE)

\* The Number n * x for a positive integer n.
Times(n, x) == ProductOf(MulBits(x.m, n), x)

\* Math.round of a Number below 2^52: the nearest integer, the greater one of
\* two that are equally near.
MathRound(x) ==
    (IF x.pt > 0 THEN FromBits(SubSeq(x.m, 1, x.pt)) ELSE 0)
    + (IF x.pt >= 0 THEN x.m[x.pt + 1] ELSE 0)

(***************************************************************************)
(* The convert calls                                                       *)
(***************************************************************************)

Calls == {1, 2}

\* The call stack JavaScript allows, in activations of parseMarkdown.
MaxDepth == 5

\* No theme snapshot (obsidianFonts || null).
NullFonts ==
    [present |-> FALSE, textFont |-> "", monospaceFont |-> "", baseFontSize |-> 0,
     headingSizes |-> <<>>, headingFonts |-> <<>>, headingColors |-> <<>>]

\* A call that has not been made.  prior is not a local of convert: it
\* records how the call made before this one on the same slot ended.
IdleCall ==
    [pc |-> "idle", markdown |-> <<>>, title |-> <<>>, fonts |-> NullFonts,
     loader |-> "none", net |-> "up", stack |-> <<>>, pending |-> NoPending,
     result |-> <<>>, failure |-> "", prior |-> "idle"]

\* What a resource loader answers for a target: "raise" when it rejects,
\* "null", or the name of the bytes it returns.  LA and LB read two different
\* places, Lnull finds nothing, Lraise rejects.
LoaderResult(loader, target) ==
    CASE loader = "Lraise" -> "raise"
      [] loader = "Lnull" -> "null"
      [] loader = "none" -> "null"
      [] OTHER -> IF target = <<"m">> THEN "null" ELSE loader

\* convert as it would be without the reset of usedFootnotes: the list of the
\* call before is kept.
convertM(c, inp) ==
    LET extracted == extractFootnotes(inp.markdown)
    IN  /\ running = 0
        /\ calls[c].pc \in {"idle", "done", "failed"}
        /\ obsidianFonts' = inp.fonts
        /\ filename' = inp.title
        /\ resourceLoader' = inp.loader
        /\ footnoteDefinitions' = extracted.definitions
        /\ usedFootnotes' = usedFootnotes
        /\ calls' = [calls EXCEPT ![c] =
                        [IdleCall EXCEPT !.pc = "scan", !.markdown = inp.markdown,
                                         !.title = inp.title, !.fonts = inp.fonts,
                                         !.loader = inp.loader, !.net = inp.net,
                                         !.stack = <<Frame(extracted.content)>>,
                                         !.prior = calls[c].pc]]
        /\ running' = c
        /\ UNCHANGED <<settings, platform, emitted, probe, probeOut, vault>>

\* convert (lines 357-371), up to the first pass of the loop of parseMarkdown.
\* The caller says what becomes of exports.
convert(c, inp) ==
    LET extracted == extractFootnotes(inp.markdown)
    IN  /\ running = 0
        /\ calls[c].pc \in {"idle", "done", "failed"}
        /\ obsidianFonts' = inp.fonts
        /\ filename' = inp.title
        /\ resourceLoader' = inp.loader
        /\ footnoteDefinitions' = extracted.definitions
        /\ usedFootnotes' = <<>>
        /\ calls' = [calls EXCEPT ![c] =
                        [IdleCall EXCEPT !.pc = "scan", !.markdown = inp.markdown,
                                         !.title = inp.title, !.fonts = inp.fonts,
                                         !.loader = inp.loader, !.net = inp.net,
                                         !.stack = <<Frame(extracted.content)>>,
                                         !.prior = calls[c].pc]]
        /\ running' = c
        /\ UNCHANGED <<settings, platform, emitted, probe, probeOut, vault>>

Top(c) == calls[c].stack[Len(calls[c].stack)]

SetTop(stack, f) == [stack EXCEPT ![Len(stack)] = f]

\* The call fails: the promise convert returned rejects.
Reject(c, why) ==
    /\ calls' = [calls EXCEPT ![c].pc = "failed", ![c].failure = why,
                              ![c].stack = <<>>, ![c].pending = NoPending]
    /\ running' = 0

\* What a pass of the loop leaves behind.  A nested parseMarkdown is called
\* at once (the callee runs before the await of its promise); beyond the call
\* stack the call raises a RangeError, which rejects every caller up to
\* convert.
Passed(c, st) ==
    /\ usedFootnotes' = st.used
    /\ IF st.push # <<>> /\ Len(calls[c].stack) >= MaxDepth
       THEN Reject(c, "RangeError")
       ELSE /\ calls' = [calls EXCEPT
                    ![c].stack = SetTop(@, st.frame)
                                 \o (IF st.push # <<>> THEN <<Frame(st.push)>> ELSE <<>>),
                    ![c].pending = IF st.pending.form = "tick" THEN NoPending
                                   ELSE st.pending,
                    ![c].pc = CASE st.pending.form = "none" -> "scan"
                                [] st.pending.form = "tick" -> "ready"
                                [] OTHER -> "image"]
            /\ running' = IF st.pending.form # "none" THEN 0 ELSE c

\* One pass of the loop of the innermost parseMarkdown, up to the await that
\* ends it if there is one.
ScanLine(c) ==
    /\ running = c
    /\ calls[c].pc = "scan"
    /\ Top(c).i <= Len(Top(c).lines)
    /\ Passed(c, LineStep(Top(c), usedFootnotes))
    /\ UNCHANGED <<settings, obsidianFonts, filename, resourceLoader,
                   footnoteDefinitions, platform, emitted, probe, probeOut,
                   exports, vault>>

\* No dimensions: getImageDimensions resolved to null or rejected.
NoDimensions == [width |-> 0, height |-> 0]

\* What the Image element reports for the bytes of this model once it has
\* loaded them: the bytes a resource loader returns are pictures of
\* 300 x 200 and of 1000 x 500, the bytes of the network none the element
\* can decode.
NaturalSize(data) ==
    CASE data = "LA" -> [width |-> 300, height |-> 200]
      [] data = "LB" -> [width |-> 1000, height |-> 500]
      [] OTHER -> NoDimensions

\* getImageDimensions (lines 1673-1694) on what the Image element reports,
\* 0 x 0 when it fails to load.
getImageDimensions(natural) ==
    IF natural.width > 0 /\ natural.height > 0 THEN natural ELSE NoDimensions

\* const maxWidth = 680 (line 1651)
maxWidth == 680

\* The height Math.max(1, Math.round(width * ratio)) with ratio the Number
\* dimensions.height / dimensions.width (lines 1643-1645, 1653-1655).
ScaledHeight(width, dimensions) ==
    Max(1, MathRound(Times(width, Divide(dimensions.height, dimensions.width))))

\* The width and height buildImageParagraph gives the ImageRun (lines
\* 1637-1657, 1665-1666); a widthOverride of 0 is none.
ImageSize(dimensions, widthOverride) ==
    IF widthOverride # 0
    THEN IF dimensions.width > 0
         THEN [width |-> Max(1, widthOverride),
               height |-> Max(1, ScaledHeight(widthOverride, dimensions))]
         ELSE [width |-> Max(1, widthOverride), height |-> Max(1, widthOverride)]
    ELSE IF dimensions.width > 0
    THEN IF dimensions.width > maxWidth
         THEN [width |-> Max(1, maxWidth),
               height |-> Max(1, ScaledHeight(maxWidth, dimensions))]
         ELSE [width |-> Max(1, dimensions.width), height |-> Max(1, dimensions.height)]
    ELSE [width |-> 400, height |-> 300]

\* The paragraph of an image of a size.
ImageParagraph(data, widthOverride, size) ==
    [Block("image", widthOverride, <<>>)
     EXCEPT !.data = data, !.width = size.width, !.height = size.height]

\* buildImageParagraph (lines 1636-1671); level holds the width override.
buildImageParagraph(data, widthOverride) ==
    ImageParagraph(data, widthOverride,
                   ImageSize(getImageDimensions(NaturalSize(data)), widthOverride))

\* What the awaited image load gives: the bytes, "null", or "raise" when the
\* rejection is not caught.  fetch (lines 1614-1622) and the loader called by
\* loadImageData (lines 1626-1630) are in a try; the loader called by
\* createEmbeddedImageParagraph (line 1542) is not.
ImageOutcome(pending, net) ==
    IF pending.form = "http" THEN (IF net = "up" THEN "net" ELSE "null")
    ELSE IF pending.form = "standard"
    THEN (IF LoaderResult(pending.loader, pending.target) = "raise" THEN "null"
          ELSE LoaderResult(pending.loader, pending.target))
    ELSE LoaderResult(pending.loader, pending.target)

\* The awaited image load settles and the scan goes on after the image line
\* (lines 529-537, 543-550).
ImageLoaded(c) ==
    /\ running = 0
    /\ calls[c].pc = "image"
    /\ LET pending == calls[c].pending
           outcome == ImageOutcome(pending, calls[c].net)
           block   == IF outcome = "null" THEN ImageNotFound(pending.label)
                      ELSE buildImageParagraph(outcome, pending.width)
       IN  IF outcome = "raise"
           THEN Reject(c, "loader")
           ELSE /\ calls' = [calls EXCEPT
                        ![c].stack = SetTop(@, Advance(Push(Top(c), <<block>>))),
                        ![c].pending = NoPending,
                        ![c].pc = "scan"]
                /\ running' = c
    /\ UNCHANGED <<settings, obsidianFonts, filename, resourceLoader,
                   footnoteDefinitions, usedFootnotes, platform, emitted, probe,
                   probeOut,
                   exports, vault>>

\* The call goes on after an await of a settled promise.
Resume(c) ==
    /\ running = 0
    /\ calls[c].pc = "ready"
    /\ calls' = [calls EXCEPT ![c].pc = "scan"]
    /\ running' = c
    /\ UNCHANGED <<settings, obsidianFonts, filename, resourceLoader,
                   footnoteDefinitions, usedFootnotes, platform, emitted, probe,
                   probeOut,
                   exports, vault>>

\* What the return of a nested parseMarkdown leaves behind.
Returned(c, ended) ==
    /\ usedFootnotes' = ended.used
    /\ calls' = [calls EXCEPT
            ![c].stack = SetTop(SubSeq(@, 1, Len(@) - 1),
                                Push(@[Len(@) - 1], ended.frame.paragraphs
                                                    \o <<BlankParagraph>>)),
            ![c].pc = "ready"]
    /\ running' = 0

\* A nested parseMarkdown returns (lines 690-695); parseDetailsBlock and the
\* loop that called it go on after their awaits (lines 753-760, 511-513).
ReturnNested(c) ==
    /\ running = c
    /\ calls[c].pc = "scan"
    /\ Len(calls[c].stack) > 1
    /\ Top(c).i > Len(Top(c).lines)
    /\ Returned(c, EndStep(Top(c), usedFootnotes))
    /\ UNCHANGED <<settings, obsidianFonts, filename, resourceLoader,
                   footnoteDefinitions, platform, emitted, probe, probeOut,
                   exports, vault>>

\* What the return of the outermost parseMarkdown leaves behind.
ReturnedTop(c, ended) ==
    /\ usedFootnotes' = ended.used
    /\ calls' = [calls EXCEPT ![c].stack = <<>>,
                              ![c].result = ended.frame.paragraphs,
                              ![c].pc = "assemble"]
    /\ running' = 0

\* The outermost parseMarkdown returns (lines 690-695) to the await of
\* convert (line 371).
ReturnTop(c) ==
    /\ running = c
    /\ calls[c].pc = "scan"
    /\ Len(calls[c].stack) = 1
    /\ Top(c).i > Len(Top(c).lines)
    /\ ReturnedTop(c, EndStep(Top(c), usedFootnotes))
    /\ UNCHANGED <<settings, obsidianFonts, filename, resourceLoader,
                   footnoteDefinitions, platform, emitted, probe, probeOut,
                   exports, vault>>

\* convert goes on to the await of Packer.toBlob (lines 373-407).
Assemble(c) ==
    /\ running = 0
    /\ calls[c].pc = "assemble"
    /\ LET header == IF settings.includeFilenameAsHeader
                     THEN <<BlankParagraph, createHeading(calls[c].title, 1)>>
                     ELSE <<>>
           notes  == IF Len(usedFootnotes) > 0 THEN appendFootnotes(usedFootnotes)
                     ELSE [blocks |-> <<>>, used |-> usedFootnotes]
       IN  /\ usedFootnotes' = notes.used
           /\ calls' = [calls EXCEPT
                    ![c].result = header \o @ \o notes.blocks,
                    ![c].pc = "pack"]
    /\ resourceLoader' = "none"
    /\ UNCHANGED <<settings, obsidianFonts, filename, footnoteDefinitions, platform,
                   running, emitted, probe, probeOut,
                   exports, vault>>

\* The arguments of a call.
InputOf(call) ==
    [markdown |-> call.markdown, title |-> call.title, fonts |-> call.fonts,
     loader |-> call.loader, net |-> call.net]

\* Packer.toBlob settles and convert returns the document (line 407).
Packed(c) ==
    /\ running = 0
    /\ calls[c].pc = "pack"
    /\ calls' = [calls EXCEPT ![c].pc = "done"]
    /\ probeOut' = IF InputOf(calls[c]) = probe
                   THEN probeOut \cup {[result |-> calls[c].result,
                                        prior |-> calls[c].prior]}
                   ELSE probeOut
    /\ UNCHANGED <<settings, obsidianFonts, filename, resourceLoader,
                   footnoteDefinitions, usedFootnotes, platform, running, emitted,
                   probe,
                   exports, vault>>

(***************************************************************************)
(* The documents and the arguments of the calls                            *)
(***************************************************************************)

\* References a, b, a in one paragraph.
DocABA ==
    <<<<"[", "^", "a", "]", "[", "^", "b", "]", "[", "^", "a", "]">>,
       <<"[", "^", "a", "]", ":", " ", "x">>,
       <<"[", "^", "b", "]", ":", " ", "y">>>>

\* References b, then a.
DocBA ==
    <<<<"t", "[", "^", "b", "]">>,
       <<"-", " ", "u", "[", "^", "a", "]">>,
       <<"[", "^", "a", "]", ":", " ", "x">>,
       <<"[", "^", "b", "]", ":", " ", "y">>>>

\* A code fence that is never closed.
DocOpenFence ==
    <<<<"t">>,
       <<BQ, BQ, BQ>>,
       <<"c">>,
       <<"d">>>>

\* A closed code fence and a table.
DocFence ==
    <<<<BQ, BQ, BQ>>,
       <<"c">>,
       <<BQ, BQ, BQ>>,
       <<"|", " ", "h", "[", "^", "a", "]", " ", "|">>,
       <<"|", " ", "-", " ", "|">>,
       <<"|", " ", "v", " ", "|">>,
       <<"[", "^", "a", "]", ":", " ", "x">>>>

\* Two wiki images around a reference that is made twice.
DocWiki ==
    <<<<"t", "[", "^", "a", "]">>,
       <<"!", "[", "[", "i", "]", "]">>,
       <<"u", "[", "^", "a", "]">>,
       <<"!", "[", "[", "i", "|", "3", "0", "]", "]">>,
       <<"[", "^", "a", "]", ":", " ", "x">>>>

\* A standard image before two references.
DocStandard ==
    <<<<"!", "[", "]", "(", "i", ")">>,
       <<"t", "[", "^", "b", "]", "[", "^", "a", "]">>,
       <<"[", "^", "b", "]", ":", " ", "y">>>>

\* Images nothing is stored for.
DocMissing ==
    <<<<"!", "[", "[", "m", "]", "]">>,
       <<"!", "[", "]", "(", "m", ")">>,
       <<"!", "[", "x", "]", "(", " ", ")">>>>

\* An image on the network.
DocHttp ==
    <<<<"!", "[", "]", "(", "h", "t", "t", "p", ":", "/", "/", "h", ")">>>>

\* A details block in a details block, with references in and around.
DocDetails ==
    <<<<"[", "^", "b", "]">>,
       <<"<", "d", "e", "t", "a", "i", "l", "s", ">">>,
       <<"<", "s", "u", "m", "m", "a", "r", "y", ">", "s", "<", "/", "s", "u", "m", "m", "a", "r", "y", ">">>,
       <<"t", "[", "^", "a", "]">>,
       <<"<", "d", "e", "t", "a", "i", "l", "s", ">">>,
       <<"u", "[", "^", "b", "]">>,
       <<"<", "/", "d", "e", "t", "a", "i", "l", "s", ">">>,
       <<"<", "/", "d", "e", "t", "a", "i", "l", "s", ">">>,
       <<"v", "[", "^", "c", "]">>,
       <<"[", "^", "a", "]", ":", " ", "x">>>>

\* A details block with nothing in it.
DocEmptyDetails ==
    <<<<"<", "d", "e", "t", "a", "i", "l", "s", ">">>,
       <<"<", "/", "d", "e", "t", "a", "i", "l", "s", ">">>,
       <<"t">>>>

\* A details block that is never closed.
DocUnclosed ==
    <<<<"<", "d", "e", "t", "a", "i", "l", "s", ">">>,
       <<"t", "[", "^", "a", "]">>>>

\* A details opener with no > on it.
DocNoGt ==
    <<<<"t">>,
       <<"<", "d", "e", "t", "a", "i", "l", "s">>>>

\* A reference in a heading only.
DocHeading ==
    <<<<"#", " ", "h", "[", "^", "a", "]">>,
       <<"[", "^", "a", "]", ":", " ", "x">>>>

\* A reference in the term of a definition item only.
DocTerm ==
    <<<<"t", "[", "^", "a", "]">>,
       <<":", " ", "d">>,
       <<"[", "^", "a", "]", ":", " ", "x">>>>

\* One line of each other block.
DocBlocks ==
    <<<<"-", "-", "-">>,
       <<">", " ", "q", "[", "^", "a", "]">>,
       <<"-", " ", "[", "x", "]", " ", "k">>,
       <<"1", ".", " ", "o">>,
       <<>>,
       <<"<", "p", ">", "h", "[", "^", "b", "]", "<", "/", "p", ">">>,
       <<"t">>,
       <<":", " ", "d", "[", "^", "c", "]">>,
       <<"[", "^", "c", "]", ":", " ", "z">>,
       <<" ", " ", " ", "m", "o", "r", "e">>>>

\* A label written with a space before it.
DocSpaced ==
    <<<<"t", "[", "^", " ", "a", "]">>,
       <<"[", "^", " ", "a", "]", ":", " ", "x">>>>

\* A definition that refers to another footnote.
DocNested ==
    <<<<"t", "[", "^", "a", "]">>,
       <<"[", "^", "a", "]", ":", " ", "s", "e", "e", " ", "[", "^", "b", "]">>,
       <<"[", "^", "b", "]", ":", " ", "y">>>>

\* No reference at all.
DocPlain ==
    <<<<"t">>>>

\* An image nothing is stored for, with an alternative text, before a
\* paragraph.
DocAlt ==
    <<<<"!", "[", "x", "]", "(", "m", ")">>,
       <<"t">>,
       <<"!", "[", "[", "m", "|", "3", "0", "]", "]">>,
       <<"u">>>>

\* Lines of rule characters: three rules, a line too short, a line that mixes
\* the characters, and a rule written with spaces.
DocRules ==
    <<<<"-", "-", "-">>,
       <<"*", "*", "*">>,
       <<"_", "_", "_">>,
       <<"-", "-">>,
       <<"-", "*", "_">>,
       <<"-", " ", "-", " ", "-">>,
       <<"t">>>>

\* List items of the three kinds at indents of 0, 1, 2, 3, 4, 6 and 10 spaces
\* and of a tab, two of them in a details block.
DocLists ==
    <<<<"-", " ", "a">>,
       <<" ", "-", " ", "b">>,
       <<" ", " ", "*", " ", "c">>,
       <<" ", " ", " ", "1", ".", " ", "f">>,
       <<" ", " ", " ", " ", "+", " ", "d">>,
       <<" ", " ", " ", " ", " ", " ", "-", " ", "[", "x", "]", " ", "g">>,
       <<" ", " ", " ", " ", " ", " ", " ", " ", " ", " ", "-", " ", "e">>,
       <<"\t", "-", " ", "h">>,
       <<" ", " ", " ", " ", " ", " ", " ", " ", " ", " ", "3", ".", " ", "i">>,
       <<"<", "d", "e", "t", "a", "i", "l", "s", ">">>,
       <<"-", " ", "j">>,
       <<" ", " ", " ", " ", "-", " ", "[", " ", "]", " ", "k">>,
       <<"<", "/", "d", "e", "t", "a", "i", "l", "s", ">">>>>

\* A table whose rows have fewer and more cells than its header, a row of
\* one empty cell, and a line of one pipe.
DocRagged ==
    <<<<"|", "a", "|", "b", "|">>,
       <<"|", "-", "|", "-", "|">>,
       <<"|", "c", "|">>,
       <<"|", "d", "|", "e", "|", "f", "|">>,
       <<"|", "|">>,
       <<"|">>,
       <<"t">>>>

\* Table rows around a rule and around a code block.
DocTableRule ==
    <<<<"|", "a", "|">>,
       <<"-", "-", "-">>,
       <<"|", "b", "|">>,
       <<"t">>,
       <<"|", "c", "|">>,
       <<BQ, BQ, BQ>>,
       <<"|", "d", "|">>,
       <<BQ, BQ, BQ>>,
       <<"|", "e", "|">>>>

\* A table with a second line of dashes below its rows, and a table whose
\* header is a line of dashes.
DocAligns ==
    <<<<"|", "a", "|", "b", "|">>,
       <<"|", ":", "-", ":", "|", "-", "-", ":", "|">>,
       <<"|", "c", "|", "d", "|">>,
       <<"|", "-", "|", "-", "|">>,
       <<"|", "e", "|", "f", "|">>,
       <<"t">>,
       <<"|", "-", "-", "|">>,
       <<"|", ":", "-", ":", "|">>,
       <<"|", "x", "|">>>>

\* A fence of backticks with a line of tildes in it, and a fence of tildes
\* with a line of backticks in it.
DocMixedFence ==
    <<<<BQ, BQ, BQ>>,
       <<"a">>,
       <<"~", "~", "~">>,
       <<"b">>,
       <<BQ, BQ, BQ>>,
       <<"t">>,
       <<"~", "~", "~">>,
       <<"c">>,
       <<BQ, BQ, BQ>>,
       <<"d">>,
       <<"~", "~", "~">>>>

\* A details block opened and closed on one line, and one whose closing tag
\* follows a text on its line.
DocInlineDetails ==
    <<<<"<", "d", "e", "t", "a", "i", "l", "s", ">", "x", "<", "/", "d", "e", "t", "a", "i", "l", "s", ">">>,
       <<"t">>,
       <<"<", "d", "e", "t", "a", "i", "l", "s", ">">>,
       <<"y">>,
       <<"z", "<", "/", "d", "e", "t", "a", "i", "l", "s", ">">>,
       <<"u">>>>

\* A details block whose content is a heading and a fenced code block.
DocDetailsCode ==
    <<<<"<", "d", "e", "t", "a", "i", "l", "s", ">">>,
       <<"<", "s", "u", "m", "m", "a", "r", "y", ">", "s", "<", "/", "s", "u", "m", "m", "a", "r", "y", ">">>,
       <<"#", " ", "h">>,
       <<BQ, BQ, BQ>>,
       <<"c">>,
       <<BQ, BQ, BQ>>,
       <<"<", "/", "d", "e", "t", "a", "i", "l", "s", ">">>>>

\* A code block whose lines have the form of a footnote definition, before a
\* paragraph.
DocFenceNote ==
    <<<<BQ, BQ, BQ>>,
       <<"[", "^", "a", "]", ":", " ", "x">>,
       <<" ", " ", "y">>,
       <<BQ, BQ, BQ>>,
       <<"t">>>>

\* A theme snapshot as getObsidianFontSettings builds it (main.ts).
ThemeFonts ==
    [present |-> TRUE, textFont |-> "Inter", monospaceFont |-> "Menlo",
     baseFontSize |-> 12, headingSizes |-> <<24, 19>>,
     headingFonts |-> <<"Inter", "Inter">>,
     headingColors |-> <<<<"r", "g", "b", "(", "0", ",", " ", "0", ",", " ", "2", "5", "5", ")">>, Inherit>>]

Input(markdown, fonts, loader, net) ==
    [markdown |-> markdown, title |-> <<"n">>, fonts |-> fonts, loader |-> loader,
     net |-> net]

\* The arguments of no call.
NoInput == Input(<<>>, NullFonts, "none", "up")

\* The calls of the runs in which one call ends before the next begins.
SeqInputs ==
    {Input(d, NullFonts, "LA", "up") :
        d \in {DocABA, DocBA, DocOpenFence, DocFence, DocWiki, DocStandard,
               DocMissing, DocDetails, DocEmptyDetails, DocUnclosed, DocNoGt,
               DocHeading, DocTerm, DocBlocks, DocSpaced, DocNested, DocPlain}}
    \cup {Input(d, ThemeFonts, l, "up") :
            d \in {DocWiki, DocStandard, DocMissing}, l \in {"none", "Lnull", "Lraise"}}
    \cup {Input(DocHttp, NullFonts, "none", n) : n \in {"up", "down"}}

\* The calls whose outputs are compared across a run.
Probes ==
    {Input(DocABA, NullFonts, "LA", "up"), Input(DocWiki, NullFonts, "LA", "up"),
     Input(DocDetails, NullFonts, "LA", "up"),
     Input(DocStandard, ThemeFonts, "Lraise", "up")}

\* The calls of the runs in which two calls overlap.
Inputs ==
    {Input(DocWiki, NullFonts, "LA", "up"), Input(DocStandard, ThemeFonts, "LB", "up"),
     Input(DocBA, NullFonts, "none", "up"), Input(DocUnclosed, ThemeFonts, "LB", "up")}

\* The settings of the plugin for the runs of convert.
ConvertSettings ==
    {[defaultFontFamily |-> "Arial", defaultFontSize |-> 11, preserveFormatting |-> pf,
      useObsidianAppearance |-> TRUE, includeFilenameAsHeader |-> ~pf] :
        pf \in BOOLEAN}

(***************************************************************************)
(* The specifications                                                      *)
(***************************************************************************)

\* navigator.platform.toLowerCase() on three systems.
Mac == <<"m", "a", "c", "i", "n", "t", "e", "l">>

Windows == <<"w", "i", "n", "3", "2">>

Linux == <<"l", "i", "n", "u", "x">>

\* A markdown file of the vault (TFile): its basename, the path of its
\* parent folder, empty for the root, and the text vault.read returns.
File(basename, parent, markdown) ==
    [basename |-> basename, parent |-> parent, markdown |-> markdown]

NoFile == File(<<>>, <<>>, <<>>)

\* An export that has not begun: the file, the position in exportToWord and
\* saveDocxFile, the path to write, and the steps taken so far.
IdleExport == [pc |-> "idle", file |-> NoFile, path |-> <<>>, trace |-> <<>>]

\* A converter as its constructor leaves it (lines 225-238), but for the
\* theme snapshot, and a plugin that has exported nothing.
Fresh ==
    /\ exports = [e \in Calls |-> IdleExport]
    /\ vault = [folders |-> {}, files |-> {}]
    /\ filename = <<>>
    /\ resourceLoader = "none"
    /\ footnoteDefinitions = <<>>
    /\ usedFootnotes = <<>>
    /\ calls = [c \in Calls |-> IdleCall]
    /\ running = 0
    /\ emitted = <<>>
    /\ probeOut = {}

Init ==
    /\ Fresh
    /\ obsidianFonts = NullFonts
    /\ settings \in ConvertSettings
    /\ platform = Windows
    /\ probe = NoInput

\* Two calls of convert on one converter, each made when the caller likes.
Next ==
    \E c \in Calls :
        \/ \E inp \in Inputs : convert(c, inp) /\ UNCHANGED exports
        \/ ScanLine(c)
        \/ ImageLoaded(c)
        \/ Resume(c)
        \/ ReturnNested(c)
        \/ ReturnTop(c)
        \/ Assemble(c)
        \/ Packed(c)

Spec == Init /\ [][Next]_vars

InitSeq ==
    /\ Fresh
    /\ obsidianFonts = NullFonts
    /\ settings \in ConvertSettings
    /\ platform = Windows
    /\ probe \in Probes

\* Calls of convert on one converter, each made after the one before has
\* returned or failed.
NextSeq ==
    \/ \E inp \in SeqInputs : convert(1, inp) /\ UNCHANGED exports
    \/ ScanLine(1)
    \/ ImageLoaded(1)
    \/ Resume(1)
    \/ ReturnNested(1)
    \/ ReturnTop(1)
    \/ Assemble(1)
    \/ Packed(1)

SpecSeq == InitSeq /\ [][NextSeq]_vars

(***************************************************************************)
(* The block scanner on documents of every kind of block                   *)
(***************************************************************************)

\* The calls of the runs that scan one document after another.
BlockInputs ==
    {Input(d, NullFonts, "LA", "up") : d \in {DocAlt, DocMissing, DocDetails, DocWiki, DocRules, DocLists,
                                               DocRagged, DocTableRule, DocAligns, DocMixedFence,
                                               DocInlineDetails, DocDetailsCode,
                                               DocFenceNote}}
    \cup {Input(DocAlt, NullFonts, l, "up") : l \in {"none", "Lnull"}}

InitBlocks ==
    /\ Fresh
    /\ obsidianFonts = NullFonts
    /\ settings \in ConvertSettings
    /\ platform = Windows
    /\ probe = NoInput

NextBlocks ==
    \/ \E inp \in BlockInputs : convert(1, inp) /\ UNCHANGED exports
    \/ ScanLine(1)
    \/ ImageLoaded(1)
    \/ Resume(1)
    \/ ReturnNested(1)
    \/ ReturnTop(1)
    \/ Assemble(1)
    \/ Packed(1)

SpecBlocks == InitBlocks /\ [][NextBlocks]_vars

(***************************************************************************)
(* The sizing of images on its own                                         *)
(***************************************************************************)

\* The widths and heights the Image element reports, 0 for a picture it
\* cannot load.
NaturalWidths == {0, 1, 6, 300, 680, 681, 1000}

NaturalHeights == {0, 1, 13, 200, 1000}

\* The width overrides of the image lines, 0 for none.
WidthOverrides == {0, 1, 27, 150, 700}

\* buildImageParagraph for bytes of a size and a width override: the
\* ImageRun with the size and the override it was made from.
BuildImage(natural, widthOverride) ==
    /\ emitted' = <<[kind |-> "image",
                     run |-> [size |-> ImageSize(getImageDimensions(natural), widthOverride),
                              natural |-> natural, widthOverride |-> widthOverride]]>>
    /\ UNCHANGED <<settings, obsidianFonts, filename, resourceLoader,
                   footnoteDefinitions, usedFootnotes, platform, calls, running, probe,
                   probeOut,
                   exports, vault>>

NextImage ==
    \E w \in NaturalWidths, h \in NaturalHeights, o \in WidthOverrides :
        BuildImage([width |-> w, height |-> h], o)

SpecImage == InitBlocks /\ [][NextImage]_vars

(***************************************************************************)
(* The inline formatter on its own                                         *)
(***************************************************************************)

\* The settings of the inline formatter: formatting kept or not.
InlineSettings ==
    {[defaultFontFamily |-> "Arial", defaultFontSize |-> 11, preserveFormatting |-> pf,
      useObsidianAppearance |-> FALSE, includeFilenameAsHeader |-> FALSE] :
        pf \in BOOLEAN}

\* Texts of paragraphs, cells and items.
InlineTexts ==
    {<<"t">>,
     <<>>,
     <<"t", " ", " ">>,
     <<" ", " ">>,
     <<"t", "[", "^", "a", "]">>,
     <<"[", "^", "b", "]", "t", "[", "^", "a", "]">>,
     <<"[", "^", "a", "]", " ", " ">>,
     <<"a", "]", " ", "[", "^", " ", "b">>,
     <<"x", "[", "^", "c", "]">>,
     <<"[", "t", "]", "(", "u", ")">>,
     <<"[", "t", "]", "(", ")">>,
     <<"[", "]", "(", "u", ")">>,
     <<"p", "[", "t", "[", "^", "a", "]", "]", "(", "u", ")", "q">>,
     <<"[", "s", "[", "t", "]", "(", "v", ")", "]", "(", "u", ")">>,
     <<"p", "<", "a", " ", "h", "r", "e", "f", "=", "\"", "u", "\"", ">", "t", "<", "/", "a", ">">>,
     <<"[", "t", "<", "b", "r", ">", "]", "(", "u", ")">>,
     <<"a", " ", "<", "u", ">", "b", "<", "/", "u", ">", " ", "c">>,
     <<"*", "*", "t", "*", "*">>,
     <<"*", "*", "a", " ", "~", "~", "b", "[", "^", "a", "]", "~", "~", " ", "c", "*", "*">>,
     <<"=", "=", "m", "[", "^", "b", "]", "=", "=", " ", "n">>,
     <<"*", "*", "[", "t", "]", "(", "u", ")", "*", "*">>,
     <<"a", " ", "*", "*", " ", "b">>,
     <<"<", "b", ">", "b", "<", "/", "b", ">", "a">>,
     <<"x", "<", "s", "u", "p", ">", "y", "<", "i", ">", "z", "<", "/", "i", ">", "<", "/", "s", "u", "p", ">">>}

InitInline ==
    /\ Fresh
    /\ settings \in InlineSettings
    /\ obsidianFonts = NullFonts
    /\ platform = Windows
    /\ probe = NoInput

\* parseInlineFormatting(text) on the converter as it is: the runs, with
\* the text they were made from and the footnote labels used so far.
FormatInline(text) ==
    /\ emitted' = <<[kind |-> "inline",
                     run |-> [text |-> text,
                              runs |-> parseInlineFormatting(text, TRUE, usedFootnotes).runs]]>>
    /\ usedFootnotes' = parseInlineFormatting(text, TRUE, usedFootnotes).used
    /\ UNCHANGED <<settings, obsidianFonts, filename, resourceLoader,
                   footnoteDefinitions, platform, calls, running, probe, probeOut,
                   exports, vault>>

\* HTML lines of inline elements.
HtmlLines ==
    {<<"<", "a", " ", "h", "r", "e", "f", "=", "\"", "u", "\"", ">", "t", "<", "/", "a", ">">>,
     <<"<", "a", " ", "h", "r", "e", "f", "=", "\"", "\"", ">", "t", "<", "/", "a", ">">>,
     <<"<", "a", ">", "t", "<", "/", "a", ">">>,
     <<"<", "a", " ", "h", "r", "e", "f", "=", "\"", "u", "\"", ">", "<", "/", "a", ">">>,
     <<"<", "a", " ", "h", "r", "e", "f", "=", "\"", "u", "\"", ">", "s", "<", "a", " ", "h", "r", "e", "f", "=", "\"", "v", "\"", ">", "t", "<", "/", "a", ">", "<", "/", "a", ">">>,
     <<"<", "a", " ", "h", "r", "e", "f", "=", "\"", "u", "\"", ">", "s", "<", "o", "b", "j", "e", "c", "t", ">", "<", "a", " ", "h", "r", "e", "f", "=", "\"", "v", "\"", ">", "t", "<", "/", "a", ">", "<", "/", "o", "b", "j", "e", "c", "t", ">", "r", "<", "/", "a", ">">>,
     <<"<", "a", " ", "h", "r", "e", "f", "=", "\"", "u", "\"", ">", "<", "o", "b", "j", "e", "c", "t", ">", "<", "a", " ", "h", "r", "e", "f", "=", "\"", "v", "\"", ">", "t", "<", "/", "a", ">", "<", "/", "o", "b", "j", "e", "c", "t", ">", "<", "/", "a", ">">>,
     <<"<", "a", " ", "h", "r", "e", "f", "=", "\"", "u", "\"", ">", "s", "<", "b", "r", ">", "<", "u", ">", "t", "[", "^", "a", "]", "<", "/", "u", ">", "<", "/", "a", ">">>,
     <<"<", "o", "b", "j", "e", "c", "t", ">", "s", "<", "/", "a", ">", "t", "<", "/", "o", "b", "j", "e", "c", "t", ">">>}

\* convertHtmlBlockToParagraphs(html) on the converter as it is, for a line
\* that gives one paragraph: its children, with the line, the text of the
\* line and the footnote labels used so far.
FormatHtmlLine(html) ==
    /\ emitted' = <<[kind |-> "html",
                     run |-> [text |-> html,
                              runs |-> HtmlLineRuns(html, usedFootnotes).runs]]>>
    /\ usedFootnotes' = HtmlLineRuns(html, usedFootnotes).used
    /\ UNCHANGED <<settings, obsidianFonts, filename, resourceLoader,
                   footnoteDefinitions, platform, calls, running, probe, probeOut,
                   exports, vault>>

NextInline ==
    \/ \E text \in InlineTexts : FormatInline(text)
    \/ \E html \in HtmlLines : FormatHtmlLine(html)

SpecInline == InitInline /\ [][NextInline]_vars

(***************************************************************************)
(* The footnote preprocessor on its own                                    *)
(***************************************************************************)

\* The most lines of a text handed to extractFootnotes.
MaxLines == 3

\* Lines of a text: paragraphs, definitions, indented lines, lines of
\* whitespace.
FootnoteLines ==
    {<<"t">>,
     <<"[", "^", "a", "]", ":", " ", "x">>,
     <<"[", "^", "a", "]", ":", " ", "y">>,
     <<"[", "^", "b", "]", ":">>,
     <<" ", " ", "m">>,
     <<" ", " ", " ">>,
     <<" ", "n">>,
     <<" ", " ">>,
     <<"[", "^", "a", "]", " ", "z">>,
     <<" ", "[", "^", "a", "]", ":", " ", "q">>,
     <<"\t", "\t", "k">>}

\* The texts of at most MaxLines lines.
FootnoteTexts == UNION {[1..n -> FootnoteLines] : n \in 1..MaxLines}

\* A converter and a text to hand to extractFootnotes.
InitFootnotes ==
    /\ Fresh
    /\ obsidianFonts = NullFonts
    /\ settings \in ConvertSettings
    /\ platform = Windows
    /\ probe \in {Input(lines, NullFonts, "none", "up") : lines \in FootnoteTexts}

\* extractFootnotes(markdown): what it returns, with the lines of the text.
ExtractFootnotes ==
    /\ emitted = <<>>
    /\ emitted' = <<[kind |-> "extract",
                     run |-> [lines |-> probe.markdown,
                              out |-> extractFootnotes(probe.markdown)]]>>
    /\ UNCHANGED <<settings, obsidianFonts, filename, resourceLoader,
                   footnoteDefinitions, usedFootnotes, platform, calls, running, probe,
                   probeOut,
                   exports, vault>>

NextFootnotes == ExtractFootnotes

SpecFootnotes == InitFootnotes /\ [][NextFootnotes]_vars

(***************************************************************************)
(* The style resolver on its own                                           *)
(***************************************************************************)

\* The settings a user can save: the font family is a free text field.
StyleSettings ==
    {[defaultFontFamily |-> f, defaultFontSize |-> 11, preserveFormatting |-> TRUE,
      useObsidianAppearance |-> a, includeFilenameAsHeader |-> FALSE] :
        f \in {"Arial", ""}, a \in BOOLEAN}

\* The theme snapshots a caller can hand to convert, and none.
StyleSnapshots ==
    {NullFonts}
    \cup {[present |-> TRUE, textFont |-> t, monospaceFont |-> m, baseFontSize |-> 12,
           headingSizes |-> <<24, 19>>, headingFonts |-> h,
           headingColors |-> <<<<"r", "g", "b", "(", "0", ",", " ", "0", ",", " ", "2", "5", "5", ")">>, Inherit>>] :
            t \in {"Inter", "", "??", "undefined"},
            m \in {"Menlo", "", " ", "??", "a??", "undefined"},
            h \in {<<"Inter", "Inter">>, <<"??", "??">>, <<"">>}}

HeadingLevels == 1..3

InitStyle ==
    /\ Fresh
    /\ settings \in StyleSettings
    /\ obsidianFonts \in StyleSnapshots
    /\ platform \in {Mac, Windows, Linux}
    /\ probe = NoInput

\* The runs of a style request, each with the kind of the request.
Styled(kind, runs) == [k \in 1..Len(runs) |-> [kind |-> kind, run |-> runs[k]]]

\* The run of a body text.
EmitBody ==
    /\ emitted' = Styled("body", <<createTextRun(<<"t">>, NoStyle)>>)
    /\ UNCHANGED <<settings, obsidianFonts, filename, resourceLoader,
                   footnoteDefinitions, usedFootnotes, platform, calls, running, probe,
                   probeOut,
                   exports, vault>>

\* The run of an inline code span (lines 1064-1066).
EmitInlineCode ==
    /\ emitted' = Styled("inline code",
                         <<createTextRun(<<"c">>, [NoStyle EXCEPT !.code = TRUE])>>)
    /\ UNCHANGED <<settings, obsidianFonts, filename, resourceLoader,
                   footnoteDefinitions, usedFootnotes, platform, calls, running, probe,
                   probeOut,
                   exports, vault>>

\* The runs of a code block of two lines.
EmitCodeBlock ==
    /\ emitted' = Styled("code block",
                         createCodeBlock(<<<<"c">>, <<"d">>>>)[1].runs
                         \o createCodeBlock(<<<<"c">>, <<"d">>>>)[2].runs)
    /\ UNCHANGED <<settings, obsidianFonts, filename, resourceLoader,
                   footnoteDefinitions, usedFootnotes, platform, calls, running, probe,
                   probeOut,
                   exports, vault>>

\* The run of a heading.
EmitHeading(level) ==
    /\ emitted' = Styled("heading", createHeading(<<"h">>, level).runs)
    /\ UNCHANGED <<settings, obsidianFonts, filename, resourceLoader,
                   footnoteDefinitions, usedFootnotes, platform, calls, running, probe,
                   probeOut,
                   exports, vault>>

NextStyle ==
    \/ EmitBody
    \/ EmitInlineCode
    \/ EmitCodeBlock
    \/ \E level \in HeadingLevels : EmitHeading(level)

SpecStyle == InitStyle /\ [][NextStyle]_vars

(***************************************************************************)
(* Reading a finished document                                             *)
(***************************************************************************)

RECURSIVE Flatten(_)
Flatten(seqs) == IF seqs = <<>> THEN <<>> ELSE Head(seqs) \o Flatten(Tail(seqs))

\* The runs of a block in reading order, those of the cells of a table
\* included.
BlockRuns(b) == b.runs \o Flatten(Flatten(b.rows))

RunsOf(blocks) == Flatten([k \in 1..Len(blocks) |-> BlockRuns(blocks[k])])

IsFootnote(b) == b.type = "footnote"

IsBody(b) == b.type # "footnote"

IsReference(run) == run.fn # <<>>

\* The superscript numbers of the blocks, in reading order.
References(blocks) == SelectSeq(RunsOf(blocks), IsReference)

\* The elements of a sequence in the order they are first seen.
RECURSIVE Distinct(_)
Distinct(seq) ==
    IF seq = <<>> THEN <<>>
    ELSE LET d == Distinct(SubSeq(seq, 1, Len(seq) - 1))
         IN  IF IndexOf(d, seq[Len(seq)]) # 0 THEN d ELSE Append(d, seq[Len(seq)])

\* The text of an entry of the footnote section after its number.
EntryText(b) == Flatten([k \in 1..(Len(b.runs) - 1) |-> b.runs[k + 1].text])

\* The labels a line refers to, left to right.
RECURSIVE LineRefs(_, _)
LineRefs(line, from) ==
    LET p == NextRef(line, from)
        q == IndexFrom(line, <<"]">>, p + 2)
    IN  IF p = 0 THEN <<>>
        ELSE <<SubSeq(line, p + 2, q - 1)>> \o LineRefs(line, q + 1)

\* The labels a text refers to, top to bottom.
TextRefs(lines) == Flatten([k \in 1..Len(lines) |-> LineRefs(lines[k], 1)])

\* What a document gives for a label: the definition written for it, or the
\* notice that there is none.
DefinitionOf(markdown, label) ==
    IF MapGet(extractFootnotes(markdown).definitions, Trim(label)) # <<>>
    THEN MapGet(extractFootnotes(markdown).definitions, Trim(label))
    ELSE MissingFootnote(label)

\* The position of the fence that opens the code block a text ends in, 0
\* when the text ends outside of a code block.
OpenFence(lines) ==
    LET fences == {k \in 1..Len(lines) : FenceMatch(lines[k])}
    IN  IF Cardinality(fences) % 2 = 1
        THEN CHOOSE k \in fences : \A j \in fences : j <= k
        ELSE 0

\* The lines that open a details block.
Openers(lines) == {k \in 1..Len(lines) : IsDetailsOpen(Trim(lines[k]))}

(***************************************************************************)
(* Properties                                                              *)
(***************************************************************************)

\* C1: when the text of a finished conversion ends inside a code fence that
\* was never closed, the lines buffered since the opening fence are in the
\* result as code paragraphs.
C1_OpenFenceEmitted ==
    \A c \in Calls :
        LET content == extractFootnotes(calls[c].markdown).content
            open    == OpenFence(content)
        IN  calls[c].pc = "done" /\ Openers(content) = {} /\ open # 0
            => \A k \in (open + 1)..Len(content) :
                  \E j \in 1..Len(calls[c].result) :
                      /\ calls[c].result[j].type = "code"
                      /\ calls[c].result[j].runs[1].text = content[k]

\* C2: in every finished conversion, overlapped by another or not, the
\* superscript numbers are those the references of the call's own text take
\* in order of first reference, and the footnote section lists the
\* definitions of the call's own document for them, in that order.
C2_OwnFootnotes ==
    \A c \in Calls :
        calls[c].pc = "done"
        => LET labels  == TextRefs(extractFootnotes(calls[c].markdown).content)
               firsts  == Distinct(labels)
               refs    == References(SelectSeq(calls[c].result, IsBody))
               entries == SelectSeq(calls[c].result, IsFootnote)
           IN  /\ Len(refs) = Len(labels)
               /\ \A k \in 1..Len(refs) :
                     /\ refs[k].fn = labels[k]
                     /\ refs[k].text = NumToString(IndexOf(firsts, labels[k]))
               /\ Len(entries) = Len(firsts)
               /\ \A k \in 1..Len(entries) :
                     EntryText(entries[k]) = DefinitionOf(calls[c].markdown, firsts[k])

\* C3: in every finished conversion, overlapped by another or not, an image
\* block holds what the resolver passed to that call returns, and no image
\* that resolver has bytes for is replaced by the placeholder.
C3_OwnResolver ==
    \A c \in Calls :
        calls[c].pc = "done"
        => \A k \in 1..Len(calls[c].result) :
              /\ calls[c].result[k].type = "image"
                 => calls[c].result[k].data \in {calls[c].loader, "net"}
              /\ calls[c].result[k].type = "placeholder"
                 => calls[c].loader \notin {"LA", "LB"}

\* C4: a call whose resolver raises does not fail for it: the image becomes
\* the placeholder and the conversion goes on.
C4_RaisingResolverIsNull ==
    \A c \in Calls : calls[c].loader = "Lraise" => calls[c].pc # "failed"

\* C5: the scan never runs out of stack, and parseMarkdown is never nested
\* deeper than the text has lines that open a details block.
C5_ScanTerminates ==
    \A c \in Calls :
        /\ calls[c].failure # "RangeError"
        /\ Len(calls[c].stack) <= 1 + Cardinality(Openers(calls[c].markdown))

\* C6: in a finished conversion the superscript numbers are 1..N in order of
\* first reference, a label referred to again keeps its number, every number
\* shown has its entry, and the footnote section lists one entry per
\* distinct label, in first-seen order, with the definition of that label.
C6_FootnoteOrder ==
    calls[1].pc = "done"
    => LET refs    == References(SelectSeq(calls[1].result, IsBody))
           firsts  == Distinct([k \in 1..Len(refs) |-> refs[k].fn])
           entries == SelectSeq(calls[1].result, IsFootnote)
           shown   == References(calls[1].result)
       IN  /\ \A k \in 1..Len(refs) :
                 refs[k].text = NumToString(IndexOf(firsts, refs[k].fn))
           /\ Len(entries) = Len(firsts)
           /\ \A k \in 1..Len(entries) :
                 /\ entries[k].level = k
                 /\ EntryText(entries[k]) = DefinitionOf(calls[1].markdown, firsts[k])
           /\ \A k \in 1..Len(shown) :
                 \E j \in 1..Len(entries) : shown[k].text = NumToString(entries[j].level)

\* C7: a finished conversion has a footnote section exactly when some line
\* of its text holds a footnote reference.
C7_SectionIffReference ==
    calls[1].pc = "done"
    => ((\E k \in 1..Len(calls[1].result) : IsFootnote(calls[1].result[k]))
        <=> TextRefs(extractFootnotes(calls[1].markdown).content) # <<>>)

\* A font name that can be written to the document: not empty, not
\* "undefined", without "??".
WritableFont(f) ==
    /\ FontText(f) # <<>>
    /\ f # "undefined"
    /\ ~Includes(FontText(f), <<"?", "?">>)

\* C8: the font of every run of a style request, for body text, inline
\* code, a code block or a heading, is a name that can be written.
C8_FontsValid ==
    \A k \in 1..Len(emitted) : WritableFont(emitted[k].run.font)

\* A code run made in theme mode from a snapshot whose monospace font is
\* empty, "undefined" or holds "??".
CodeRunOfInvalidFont(k) ==
    /\ emitted[k].kind \in {"inline code", "code block"}
    /\ settings.useObsidianAppearance
    /\ obsidianFonts.present
    /\ ~WritableFont(obsidianFonts.monospaceFont)

C10_Deterministic ==
    \A x, y \in probeOut : x.result = y.result

C10_Witness ==
    \E x, y \in probeOut :
        /\ x.prior = "done"
        /\ y.prior = "failed"
        /\ x.result = y.result
        /\ \E k \in 1..Len(x.result) : IsFootnote(x.result[k])

\* The text of a paragraph: that of its runs, one after the other.
BlockText(b) == Flatten([k \in 1..Len(b.runs) |-> b.runs[k].text])

\* An image line, of either form.
IsImageLine(line) ==
    StandardImageMatch(Trim(line)) # 0 \/ WikiImageMatch(Trim(line))

\* The target an image line names.
ImageLineTarget(line) ==
    LET t == Trim(line)
        p == StandardImageMatch(t)
    IN  IF p # 0 THEN parseStandardImageTarget(SubSeq(t, p + 2, Len(t) - 1)).target
        ELSE parseEmbeddedImageLink(SubSeq(t, 4, Len(t) - 2)).target

\* The image lines of a call that nothing is found for.
UnresolvedLines(call) ==
    LET content == extractFootnotes(call.markdown).content
    IN  {k \in 1..Len(content) :
            /\ IsImageLine(content[k])
            /\ \/ ImageLineTarget(content[k]) = <<>>
               \/ IsHttp(ImageLineTarget(content[k])) /\ call.net = "down"
               \/ /\ ~IsHttp(ImageLineTarget(content[k]))
                  /\ LoaderResult(call.loader, ImageLineTarget(content[k])) = "null"}

IsPlaceholder(b) == b.type = "placeholder"

\* C11: in a finished conversion of a text without fences and details
\* blocks there is one placeholder paragraph per image line nothing is found
\* for, in the order of the lines; it reads [Image not found: ...] and names
\* the target of its line, and the line after it is in the result as well.
C11_PlaceholderNamesTarget ==
    LET content == extractFootnotes(calls[1].markdown).content
        result  == calls[1].result
        Missing(k) == k \in UnresolvedLines(calls[1])
        missing == SelectSeq([k \in 1..Len(content) |-> k], Missing)
        made    == SelectSeq(result, IsPlaceholder)
    IN  /\ calls[1].pc = "done"
        /\ Openers(content) = {}
        /\ \A k \in 1..Len(content) : ~FenceMatch(content[k])
        => /\ Len(made) = Len(missing)
           /\ \A n \in 1..Len(made) :
                 /\ StartsWith(BlockText(made[n]),
                               <<"[", "I", "m", "a", "g", "e", " ", "n", "o", "t", " ",
                                 "f", "o", "u", "n", "d", ":", " ">>)
                 /\ EndsWith(BlockText(made[n]), <<"]">>)
                 /\ Includes(SubSeq(BlockText(made[n]), 19, Len(BlockText(made[n])) - 1),
                             ImageLineTarget(content[missing[n]]))
           /\ \A n \in 1..Len(missing) :
                 missing[n] < Len(content) /\ ~IsImageLine(content[missing[n] + 1])
                 => \E j \in 1..Len(result) :
                       BlockText(result[j]) = content[missing[n] + 1]

\* A text every line of which is scanned on its own and gives one block: no
\* fence, details block, table, HTML line or definition item.
LineByLine(content) ==
    \A k \in 1..Len(content) :
        /\ ~FenceMatch(content[k])
        /\ ~IsDetailsOpen(Trim(content[k]))
        /\ ~IsTableLine(content[k])
        /\ ~isHtmlBlockLine(Trim(content[k]))
        /\ DefinitionText(content[k]) = <<>>

\* The blocks of the lines of a finished conversion: the result after the
\* heading of the file name.
Body(call) ==
    IF settings.includeFilenameAsHeader
    THEN SubSeq(call.result, 3, Len(call.result))
    ELSE call.result

\* At least three times one of the characters - * _ and nothing else, once
\* the whitespace is removed.
SameCharRule(line) ==
    LET s == StripWs(Trim(line))
    IN  /\ Len(s) >= 3
        /\ s[1] \in RuleChars
        /\ \A k \in 1..Len(s) : s[k] = s[1]

\* C12: in a finished conversion of a text scanned line by line, the block
\* of a line is a horizontal rule exactly when the line, its whitespace
\* removed, is at least three times one single character of - * _.
C12_RuleIffSameChar ==
    LET content == extractFootnotes(calls[1].markdown).content
        body    == Body(calls[1])
    IN  calls[1].pc = "done" /\ LineByLine(content) /\ TextRefs(content) = <<>>
        => /\ Len(body) = Len(content)
           /\ \A k \in 1..Len(content) :
                 body[k].type = "rule" <=> SameCharRule(content[k])

\* The level of the claim for a line that starts with w whitespace
\* characters.
ClampedLevel(w) == IF w >= 4 THEN 2 ELSE IF w >= 2 THEN 1 ELSE 0

\* C13: whenever a pass of the scan, nested in a details block or not, makes
\* a task, bullet or numbered item of the line it is at, the level of the
\* item is min(floor(w / 2), 2) for the w whitespace characters the line
\* starts with: one of 0, 1, 2 and, for a bullet or numbered item, a level
\* that createNumbering declares for its reference.
C13_ListLevels ==
    [][LET before == calls[1].stack
           after  == calls'[1].stack
           f      == before[Len(before)]
           g      == after[Len(after)]
           item   == g.paragraphs[Len(g.paragraphs)]
       IN  /\ calls[1].pc = "scan"
           /\ Len(before) > 0
           /\ Len(after) = Len(before)
           /\ g.i = f.i + 1
           /\ Len(g.paragraphs) > Len(f.paragraphs)
           /\ item.type \in {"task", "bullet", "numbered"}
           => /\ item.level = ClampedLevel(LeadWs(f.lines[f.i]))
              /\ item.level \in {0, 1, 2}
              /\ item.type = "bullet" => item.level \in createNumbering.bullet
              /\ item.type = "numbered" => item.level \in createNumbering.numbered]_vars

\* A finished conversion with a bullet made of a line indented by ten
\* spaces at level 2, a numbered item at level 1, and a task indented by six
\* spaces in a details block at level 2.
C13_Witness ==
    /\ calls[1].pc = "done"
    /\ calls[1].markdown = DocLists
    /\ \E j \in 1..Len(calls[1].result) :
          /\ calls[1].result[j].type = "bullet"
          /\ calls[1].result[j].level = 2
          /\ BlockText(calls[1].result[j]) = <<"e">>
    /\ \E j \in 1..Len(calls[1].result) :
          /\ calls[1].result[j].type = "numbered"
          /\ calls[1].result[j].level = 1
          /\ BlockText(calls[1].result[j]) = <<"f">>
    /\ \E j \in 1..Len(calls[1].result) :
          /\ calls[1].result[j].type = "task"
          /\ calls[1].result[j].level = 2
          /\ BlockText(calls[1].result[j]) = <<"o", " ", "k">>

\* round(a / b) for positive integers, a half rounded up.
RoundedQuotient(a, b) == (2 * a + b) \div (2 * b)

\* C14: an image of natural size W x H, both positive, is given, with a
\* width override w, the size w x max(1, round(w * H / W)); with none and
\* W > 680, 680 x max(1, round(680 * H / W)); with none and W <= 680, W x H;
\* and its width and height are at least 1.
C14_ImageSize ==
    \A k \in 1..Len(emitted) :
        LET run == emitted[k].run
            W   == run.natural.width
            H   == run.natural.height
            w   == run.widthOverride
        IN  emitted[k].kind = "image" /\ W > 0 /\ H > 0
            => /\ run.size.width >= 1
               /\ run.size.height >= 1
               /\ run.size = IF w # 0
                             THEN [width |-> w,
                                   height |-> Max(1, RoundedQuotient(w * H, W))]
                             ELSE IF W > 680
                             THEN [width |-> 680,
                                   height |-> Max(1, RoundedQuotient(680 * H, W))]
                             ELSE [width |-> W, height |-> H]

\* The tables of a list of blocks, in order.
TablesOf(blocks) == SelectSeq(blocks, LAMBDA b : b.type = "table")

\* A pipe-bounded line whose cells all match :?-+:? .
IsAlignLine(line) ==
    IsTableLine(line) /\ \A k \in 1..Len(TableCells(line)) : IsAlignCell(TableCells(line)[k])

\* The pipe-bounded lines that are buffered as rows, in order.
RowLines(content) ==
    SelectSeq(content, LAMBDA l : IsTableLine(l) /\ ~IsAlignLine(l))

\* The texts of the cells of a row of a table.
CellTexts(row) == [k \in 1..Len(row) |-> Flatten([j \in 1..Len(row[k]) |-> row[k][j].text])]

\* The rows of the tables of a list of blocks, as the texts of their cells.
RowTexts(blocks) ==
    Flatten([k \in 1..Len(TablesOf(blocks)) |->
                [j \in 1..Len(TablesOf(blocks)[k].rows) |->
                    CellTexts(TablesOf(blocks)[k].rows[j])]])

NoFences(content) == \A k \in 1..Len(content) : ~FenceMatch(content[k])

\* C15: the conversion of a text with a table does not fail; in the finished
\* conversion of a text without fences, every table has at least one row, a
\* column count that is the cell count of its first row and at least 1, and
\* the rows of the tables are the buffered lines, each with exactly its own
\* cells.
C15_RaggedRows ==
    LET content == extractFootnotes(calls[1].markdown).content
        body    == Body(calls[1])
    IN  /\ (\E k \in 1..Len(content) : IsTableLine(content[k]))
           => calls[1].pc # "failed"
        /\ calls[1].pc = "done" /\ NoFences(content) /\ Openers(content) = {}
           => /\ \A k \in 1..Len(body) :
                    body[k].type = "table"
                    => /\ Len(body[k].rows) >= 1
                       /\ body[k].level = Len(body[k].rows[1])
                       /\ body[k].level >= 1
              /\ RowTexts(body) = [k \in 1..Len(RowLines(content)) |->
                                      TableCells(RowLines(content)[k])]

\* A finished conversion of the table whose rows have one, two and three
\* cells: one table of two columns with rows of 2, 1, 3 and 1 cells.
C15_Witness ==
    /\ calls[1].pc = "done"
    /\ calls[1].markdown = DocRagged
    /\ Len(TablesOf(Body(calls[1]))) = 1
    /\ TablesOf(Body(calls[1]))[1].level = 2
    /\ [k \in 1..4 |-> Len(TablesOf(Body(calls[1]))[1].rows[k])] = <<2, 1, 3, 1>>

\* C16: with the preserve-formatting flag disabled, the runs of a text are
\* one plain run carrying the text, or, when the text ends in two spaces,
\* that run (with or without the two spaces; none for a text of two spaces
\* only) followed by one LineBreak.
C16_SinglePlainRun ==
    \A k \in 1..Len(emitted) :
        LET text == emitted[k].run.text
            runs == emitted[k].run.runs
        IN  emitted[k].kind = "inline" /\ ~settings.preserveFormatting
            => IF EndsWith(text, <<" ", " ">>)
               THEN \/ /\ Len(runs) = 2
                       /\ runs[1] \in {createTextRun(text, NoStyle),
                                       createTextRun(SubSeq(text, 1, Len(text) - 2), NoStyle)}
                       /\ runs[2] = BreakRun
                    \/ Len(text) = 2 /\ runs = <<BreakRun>>
               ELSE runs = <<createTextRun(text, NoStyle)>>

\* The text of a list of inline tokens: that of its text tokens.
TokensText(tokens) ==
    Flatten([k \in 1..Len(tokens) |->
                IF tokens[k].type = "text" THEN tokens[k].content ELSE <<>>])

\* The text of a list of runs, that of the children of its Hyperlinks
\* included.
RECURSIVE RunsText(_)
RunsText(runs) ==
    IF runs = <<>> THEN <<>>
    ELSE (IF IsTextRun(Head(runs)) THEN Head(runs).text
          ELSE RunsText(Head(runs).children))
         \o RunsText(Tail(runs))

\* The text an HTML line or a markdown text shows.
ShownText(kind, text) ==
    IF kind = "html" THEN TextContent(WrappedNodes(text))
    ELSE TokensText(MdParseInline(text))

\* C17: every Hyperlink of the runs of a markdown text or of an HTML line
\* has a target, at least one child, and only text runs as children; and
\* the runs of a text without footnote references that shows some text
\* carry that text.
C17_HyperlinksFlat ==
    \A k \in 1..Len(emitted) :
        LET text == emitted[k].run.text
            runs == emitted[k].run.runs
        IN  \/ emitted[k].kind = "html"
            \/ emitted[k].kind = "inline" /\ settings.preserveFormatting
            => /\ \A j \in 1..Len(runs) :
                     ~IsTextRun(runs[j])
                     => /\ runs[j].link # <<>>
                        /\ Len(runs[j].children) >= 1
                        /\ \A c \in 1..Len(runs[j].children) :
                              IsTextRun(runs[j].children[c])
               /\ NextRef(text, 1) = 0 /\ ShownText(emitted[k].kind, text) # <<>>
                  => RunsText(runs) = ShownText(emitted[k].kind, text)

\* A table, rule or code line of an outline: its kind and its texts.
Mark(type, rows) == [type |-> type, rows |-> rows]

\* The table of the rows buffered, none when there are none.
TableMark(rows) == IF rows = <<>> THEN <<>> ELSE <<Mark("table", rows)>>

\* The next fence line from line k on, 0 when there is none.
RECURSIVE NextFence(_, _)
NextFence(lines, k) ==
    IF k > Len(lines) THEN 0
    ELSE IF FenceMatch(lines[k]) THEN k
    ELSE NextFence(lines, k + 1)

\* The tables, rules and code lines of a text in source order, as the
\* claim has them: a table ends at the first line that is not pipe-bounded.
\* rows are the rows of the table that is open at line k.
RECURSIVE Outline(_, _, _)
Outline(lines, k, rows) ==
    IF k > Len(lines) THEN TableMark(rows)
    ELSE IF FenceMatch(lines[k])
    THEN TableMark(rows)
         \o (IF NextFence(lines, k + 1) = 0 THEN <<>>
             ELSE IF NextFence(lines, k + 1) = k + 1 THEN <<Mark("code", <<<<>>>>)>>
             ELSE [j \in 1..(NextFence(lines, k + 1) - k - 1) |->
                      Mark("code", <<lines[k + j]>>)]
                  \o Outline(lines, NextFence(lines, k + 1) + 1, <<>>))
    ELSE IF IsTableLine(lines[k])
    THEN Outline(lines, k + 1,
                 IF IsAlignLine(lines[k]) THEN rows ELSE Append(rows, TableCells(lines[k])))
    ELSE TableMark(rows)
         \o (IF IsHorizontalRule(Trim(lines[k])) THEN <<Mark("rule", <<>>)>> ELSE <<>>)
         \o Outline(lines, k + 1, <<>>)

\* The tables, rules and code lines of a list of blocks, in order.
RECURSIVE MarksOf(_)
MarksOf(blocks) ==
    IF blocks = <<>> THEN <<>>
    ELSE (CASE Head(blocks).type = "table" ->
                  <<Mark("table", [j \in 1..Len(Head(blocks).rows) |->
                                      CellTexts(Head(blocks).rows[j])])>>
            [] Head(blocks).type = "rule" -> <<Mark("rule", <<>>)>>
            [] Head(blocks).type = "code" -> <<Mark("code", <<BlockText(Head(blocks))>>)>>
            [] OTHER -> <<>>)
         \o MarksOf(Tail(blocks))

\* Every fence line of the text is a line of three backticks.
BacktickFences(content) ==
    \A k \in 1..Len(content) :
        FenceMatch(content[k]) => Trim(content[k]) = <<BQ, BQ, BQ>>

\* C18: in a finished conversion of a text whose fences are closed, the
\* tables, rules and code blocks are emitted in source order, each table
\* with the rows of the pipe-bounded lines up to the first line that is not
\* pipe-bounded.
C18_TablesInOrder ==
    LET content == extractFootnotes(calls[1].markdown).content
    IN  /\ calls[1].pc = "done"
        /\ Openers(content) = {}
        /\ BacktickFences(content)
        /\ Cardinality({k \in 1..Len(content) : FenceMatch(content[k])}) % 2 = 0
        => MarksOf(Body(calls[1])) = Outline(content, 1, <<>>)

\* The last line of the group of pipe-bounded lines that starts at line k.
RECURSIVE GroupEnd(_, _)
GroupEnd(lines, k) ==
    IF k < Len(lines) /\ IsTableLine(lines[k + 1]) THEN GroupEnd(lines, k + 1) ELSE k

\* The alignments an alignment line gives.
AlignmentsOf(line) ==
    [k \in 1..Len(TableCells(line)) |-> CellAlignment(TableCells(line)[k])]

\* The table of a group of pipe-bounded lines as the claim has it: only its
\* second line can be the alignment row, every other line is a row.
GroupTable(group) ==
    IF Len(group) >= 2 /\ IsAlignLine(group[2])
    THEN [rows   |-> [k \in 1..(Len(group) - 1) |->
                         TableCells(group[IF k = 1 THEN 1 ELSE k + 1])],
          aligns |-> AlignmentsOf(group[2])]
    ELSE [rows   |-> [k \in 1..Len(group) |-> TableCells(group[k])],
          aligns |-> <<>>]

\* The tables of the groups of pipe-bounded lines from line k on.
RECURSIVE GroupTables(_, _)
GroupTables(lines, k) ==
    IF k > Len(lines) THEN <<>>
    ELSE IF IsTableLine(lines[k])
    THEN <<GroupTable(SubSeq(lines, k, GroupEnd(lines, k)))>>
         \o GroupTables(lines, GroupEnd(lines, k) + 1)
    ELSE GroupTables(lines, k + 1)

\* The rows and alignments of the tables of a list of blocks.
TablesMade(blocks) ==
    [k \in 1..Len(TablesOf(blocks)) |->
        [rows   |-> [j \in 1..Len(TablesOf(blocks)[k].rows) |->
                        CellTexts(TablesOf(blocks)[k].rows[j])],
         aligns |-> TablesOf(blocks)[k].aligns]]

\* C19: in a finished conversion of a text without fences and rules, the
\* table of a group of pipe-bounded lines has the alignments of the second
\* line of the group when that is an alignment line, and every other line
\* of the group as a row, the first line and later lines of dashes
\* included.
C19_AlignmentRowSecond ==
    LET content == extractFootnotes(calls[1].markdown).content
    IN  /\ calls[1].pc = "done"
        /\ Openers(content) = {}
        /\ NoFences(content)
        /\ \A k \in 1..Len(content) : ~IsHorizontalRule(Trim(content[k]))
        => TablesMade(Body(calls[1])) = GroupTables(content, 1)

\* The marker of a fence line.
FenceMarker(line) == Take(Trim(line), 3)

\* The next fence line from line k on that bears a marker, 0 when there is
\* none.
RECURSIVE NextSameFence(_, _, _)
NextSameFence(lines, k, marker) ==
    IF k > Len(lines) THEN 0
    ELSE IF FenceMatch(lines[k]) /\ FenceMarker(lines[k]) = marker THEN k
    ELSE NextSameFence(lines, k + 1, marker)

\* Every fence of the lines from line k on is closed by a fence line of its
\* own marker.
RECURSIVE FencesClosed(_, _)
FencesClosed(lines, k) ==
    IF k > Len(lines) THEN TRUE
    ELSE IF ~FenceMatch(lines[k]) THEN FencesClosed(lines, k + 1)
    ELSE /\ NextSameFence(lines, k + 1, FenceMarker(lines[k])) # 0
         /\ FencesClosed(lines, NextSameFence(lines, k + 1, FenceMarker(lines[k])) + 1)

\* The code lines of a text as the claim has them: the lines between a
\* fence line and the next fence line of the same marker.
RECURSIVE CodeOutline(_, _)
CodeLines(lines, k, e) ==
    (IF e = k + 1 THEN <<Mark("code", <<<<>>>>)>>
     ELSE [j \in 1..(e - k - 1) |-> Mark("code", <<lines[k + j]>>)])
    \o CodeOutline(lines, e + 1)

CodeOutline(lines, k) ==
    IF k > Len(lines) THEN <<>>
    ELSE IF ~FenceMatch(lines[k]) THEN CodeOutline(lines, k + 1)
    ELSE IF NextSameFence(lines, k + 1, FenceMarker(lines[k])) = 0 THEN <<>>
    ELSE CodeLines(lines, k, NextSameFence(lines, k + 1, FenceMarker(lines[k])))

\* C20: in a finished conversion of a text whose fences are each closed by
\* a fence line of the same marker, the code blocks hold the lines between
\* an opening fence line and the next fence line of the same marker, the
\* lines with the other marker included.
C20_SameMarkerCloses ==
    LET content == extractFootnotes(calls[1].markdown).content
    IN  /\ calls[1].pc = "done"
        /\ Openers(content) = {}
        /\ FencesClosed(content, 1)
        => SelectSeq(MarksOf(Body(calls[1])), LAMBDA x : x.type = "code")
           = CodeOutline(content, 1)

\* The number of times p occurs in s.
RECURSIVE CountOf(_, _, _)
CountOf(s, p, from) ==
    IF IndexFrom(s, p, from) = 0 THEN 0
    ELSE 1 + CountOf(s, p, IndexFrom(s, p, from) + Len(p))

\* The line at which the details region that is at depth `depth` before
\* line k ends: the first line at whose end as many </details> tags as
\* <details tags were read, the last line when there is none.
RECURSIVE RegionEnd(_, _, _)
RegionEnd(lines, k, depth) ==
    IF k >= Len(lines) THEN Len(lines)
    ELSE IF depth + CountOf(lines[k], DetailsOpen, 1)
                  - CountOf(lines[k], DetailsClose, 1) <= 0
    THEN k
    ELSE RegionEnd(lines, k + 1, depth + CountOf(lines[k], DetailsOpen, 1)
                                       - CountOf(lines[k], DetailsClose, 1))

\* C21: whenever a pass of the scan is at a details opener, the scan goes
\* on with the line after the one that holds the closing tag of that
\* opener, depth counted over nested details, or after the last line when
\* the opener is not closed.
C21_RegionEndsAtClosingTag ==
    [][LET before == calls[1].stack
           after  == calls'[1].stack
           f      == before[Len(before)]
           g      == after[Len(before)]
       IN  /\ calls[1].pc = "scan"
           /\ Len(before) > 0
           /\ Len(after) >= Len(before)
           /\ f.i <= Len(f.lines)
           /\ ~f.inCodeBlock
           /\ IsDetailsOpen(Trim(f.lines[f.i]))
           => Min(g.i, Len(f.lines) + 1) = RegionEnd(f.lines, f.i, 0) + 1]_vars

\* A text whose markup is HTML tags only, none of them of a link.
HtmlOnly(text) ==
    /\ ~Includes(text, <<"<", "a">>)
    /\ \E k \in 1..Len(MdParseInline(text)) : MdParseInline(text)[k].type = "html_inline"
    /\ \A k \in 1..Len(MdParseInline(text)) :
          MdParseInline(text)[k].type \in {"html_inline", "text"}

\* C22: the runs of a markdown text whose markup is HTML elements are those
\* of its elements: the text in an element carries the attribute of its
\* tag, the text outside it does not.
C22_InlineHtmlStyled ==
    \A k \in 1..Len(emitted) :
        LET text == emitted[k].run.text
            runs == emitted[k].run.runs
        IN  /\ emitted[k].kind = "inline"
            /\ settings.preserveFormatting
            /\ HtmlOnly(text)
            /\ NextRef(text, 1) = 0
            => runs = parseHtmlNodes(WrappedNodes(text), NoStyle, TRUE, <<>>).runs

\* A line of the form [^label]: text.
IsDefinitionLine(line) ==
    /\ StartsWith(line, <<"[", "^">>)
    /\ \E q \in 4..Len(line) :
          /\ line[q] = "]"
          /\ \A j \in 3..(q - 1) : line[j] # "]"
          /\ Len(line) > q
          /\ line[q + 1] = ":"

\* The label of a definition line.
LabelOf(line) == Trim(SubSeq(line, 3, IndexFrom(line, <<"]">>, 3) - 1))

\* A line indented by at least two whitespace characters, spaces or tabs:
\* two and something after them, be it whitespace.
IsIndented(line) == Len(line) >= 3 /\ IsWs(line[1]) /\ IsWs(line[2])

\* Line k is a definition line or a continuation line: an indented line
\* that directly follows a definition line or a continuation line.
RECURSIVE IsFootnoteLine(_, _)
IsFootnoteLine(lines, k) ==
    \/ IsDefinitionLine(lines[k])
    \/ k > 1 /\ IsIndented(lines[k]) /\ IsFootnoteLine(lines, k - 1)

\* The lines that are neither, in order.
OtherLines(lines) ==
    LET keep == {k \in 1..Len(lines) : ~IsFootnoteLine(lines, k)}
        nth(n) == CHOOSE k \in keep : Cardinality({j \in keep : j < k}) = n - 1
    IN  [n \in 1..Cardinality(keep) |-> lines[nth(n)]]

\* The last definition line of a label.
LastDefinition(lines, label) ==
    CHOOSE k \in 1..Len(lines) :
        /\ IsDefinitionLine(lines[k]) /\ LabelOf(lines[k]) = label
        /\ \A j \in (k + 1)..Len(lines) :
              ~(IsDefinitionLine(lines[j]) /\ LabelOf(lines[j]) = label)

\* The text of the definition that starts at line k: what follows the
\* colon and the continuation lines, trimmed and joined by spaces.
DefinitionAt(lines, k) ==
    LET rest  == Trim(Drop(lines[k], IndexFrom(lines[k], <<"]">>, 3) + 1))
        conts == {j \in (k + 1)..Len(lines) :
                     \A i \in (k + 1)..j : IsIndented(lines[i])}
        parts == (IF rest # <<>> THEN <<rest>> ELSE <<>>)
                 \o [n \in 1..Cardinality(conts) |-> Trim(lines[k + n])]
    IN  Trim(Join(parts, <<" ">>))

\* C23: extractFootnotes returns the lines of the text that are neither
\* definition lines nor their continuation lines, unchanged and in order,
\* and a map of the labels defined to the last definition of each.
C23_ExtractFootnotes ==
    \A k \in 1..Len(emitted) :
        LET lines == emitted[k].run.lines
            out   == emitted[k].run.out
            labels == {LabelOf(lines[j]) : j \in {i \in 1..Len(lines) :
                                                     IsDefinitionLine(lines[i])}}
        IN  emitted[k].kind = "extract"
            => /\ out.content = Split(Join(OtherLines(lines), <<"\n">>), "\n")
               /\ DOMAIN out.definitions = labels
               /\ \A l \in labels :
                     out.definitions[l] = DefinitionAt(lines, LastDefinition(lines, l))

\* A text with a label defined twice, the second time with a continuation
\* line, before a paragraph.
C23_Witness ==
    /\ Len(emitted) = 1
    /\ emitted[1].kind = "extract"
    /\ Len(emitted[1].run.lines) = 3
    /\ emitted[1].run.lines[1] = <<"[", "^", "a", "]", ":", " ", "x">>
    /\ emitted[1].run.lines[2] = <<"[", "^", "a", "]", ":", " ", "y">>
    /\ emitted[1].run.lines[3] = <<" ", " ", "m">>
    /\ emitted[1].run.out.content = <<<<>>>>
    /\ emitted[1].run.out.definitions[<<"a">>] = <<"y", " ", "m">>

\* The number of runs createTextRunsFromString makes of a text.
PieceCount(content) == Len(createTextRunsFromString(content, NoStyle, TRUE, <<>>).runs)

\* The styles of the enclosing scopes of the runs of a list of tokens, one
\* for each text run and each footnote run, in order: a span adds its
\* attribute to the style around it, a link underline and color.
RECURSIVE ScopeStyles(_, _)
ScopeStyles(tokens, style) ==
    IF tokens = <<>> THEN <<>>
    ELSE IF Head(tokens).nesting = 1
    THEN ScopeStyles(SubSeq(tokens, 2, findClosingTokenIndex(tokens, 1) - 1),
                     IF Head(tokens).type = "link_open" THEN HyperlinkStyle(style)
                     ELSE SpanStyle(Head(tokens).type, style))
         \o ScopeStyles(Drop(tokens, findClosingTokenIndex(tokens, 1)), style)
    ELSE (IF Head(tokens).type = "text"
          THEN [k \in 1..PieceCount(Head(tokens).content) |-> style]
          ELSE <<>>)
         \o ScopeStyles(Tail(tokens), style)

\* The text runs of a list of runs, those of its Hyperlinks in their place.
RECURSIVE FlatRuns(_)
FlatRuns(runs) ==
    IF runs = <<>> THEN <<>>
    ELSE (IF IsTextRun(Head(runs)) THEN <<Head(runs)>> ELSE FlatRuns(Head(runs).children))
         \o FlatRuns(Tail(runs))

\* A run carries every attribute a style sets.
Carries(run, style) ==
    /\ style.bold => run.bold
    /\ style.italic => run.italics
    /\ style.strikethrough => run.strike
    /\ style.underline => run.underline
    /\ style.highlight => run.highlight
    /\ style.color # "" => run.color = style.color
    /\ style.superScript => run.superScript
    /\ style.subScript => run.subScript

\* A text whose tokens are text, links and style spans.
ScopedText(text) ==
    \A k \in 1..Len(MdParseInline(text)) : MdParseInline(text)[k].type # "html_inline"

\* C24: every run of a markdown text, the superscript run of a footnote
\* reference included, carries every attribute set by the spans and links
\* that enclose it.
C24_StylesCompose ==
    \A k \in 1..Len(emitted) :
        LET text   == emitted[k].run.text
            runs   == FlatRuns(emitted[k].run.runs)
            styles == ScopeStyles(MdParseInline(text), NoStyle)
        IN  /\ emitted[k].kind = "inline"
            /\ settings.preserveFormatting
            /\ ScopedText(text)
            /\ Len(styles) > 0
            => /\ Len(runs) = Len(styles)
               /\ \A j \in 1..Len(runs) : Carries(runs[j], styles[j])

(***************************************************************************)
(* Heading colours                                                         *)
(***************************************************************************)

\* Number.prototype.toString for n >= 0, a sequence of characters.
RECURSIVE Decimal(_)
Decimal(n) == IF n < 10 THEN <<Digit(n)>> ELSE Append(Decimal(n \div 10), Digit(n % 10))

\* The channel values of the captured colours.
Channels == {0, 10, 128, 255}

\* The computed value of an opaque colour, as getPropertyValue('color')
\* serialises it (main.ts line 248).
RgbText(r, g, b) ==
    <<"r", "g", "b", "(">> \o Decimal(r) \o <<",", " ">> \o Decimal(g)
        \o <<",", " ">> \o Decimal(b) \o <<")">>

\* The computed value of a colour that is half transparent.
RgbaText(r, g, b) ==
    <<"r", "g", "b", "a", "(">> \o Decimal(r) \o <<",", " ">> \o Decimal(g)
        \o <<",", " ">> \o Decimal(b) \o <<",", " ", "0", ".", "5", ")">>

\* The colours getHeadingSizes can capture (main.ts lines 248-249, 261):
\* rgb() and rgba() values, 'inherit', and texts of other colour syntaxes.
CapturedColors ==
    {RgbText(r, g, b) : r \in Channels, g \in Channels, b \in Channels}
    \cup {RgbaText(r, g, b) : r \in Channels, g \in Channels, b \in Channels}
    \cup {Inherit,
          <<"#", "0", "0", "0", "0", "f", "f">>,
          <<"r", "g", "b", "(", "0", " ", "0", " ", "2", "5", "5", ")">>,
          <<"c", "o", "l", "o", "r", "(", "s", "r", "g", "b", " ", "0", " ", "0", " ",
            "1", ")">>,
          <<"r", "e", "d">>}

\* The theme snapshots of the heading colours: one captured colour, so that
\* level 2 and above have none.
HeadingSnapshots ==
    {NullFonts} \cup {[ThemeFonts EXCEPT !.headingColors = <<c>>] : c \in CapturedColors}

InitHeading ==
    /\ Fresh
    /\ settings \in StyleSettings
    /\ obsidianFonts \in HeadingSnapshots
    /\ platform = Windows
    /\ probe = NoInput

\* createHeading (lines 927-982) for a heading of a level: its run, with
\* the level.
HeadingRun(level) ==
    /\ emitted' = <<[kind |-> "headingColor",
                     run |-> [level |-> level,
                              runs |-> createHeading(<<"h">>, level).runs]]>>
    /\ UNCHANGED <<settings, obsidianFonts, filename, resourceLoader,
                   footnoteDefinitions, usedFootnotes, platform, calls, running, probe,
                   probeOut,
                   exports, vault>>

NextHeading == \E level \in HeadingLevels : HeadingRun(level)

SpecHeading == InitHeading /\ [][NextHeading]_vars

\* Two upper-case hexadecimal digits of a channel value.
Hex2(n) ==
    LET digits == <<"0", "1", "2", "3", "4", "5", "6", "7", "8", "9",
                    "A", "B", "C", "D", "E", "F">>
    IN  digits[(n \div 16) + 1] \o digits[(n % 16) + 1]

\* The captured colour of a heading level is rgb(r, g, b) or rgba(r, g, b, a).
IsRgb(level, r, g, b) ==
    ColorAt(obsidianFonts.headingColors, level) \in {RgbText(r, g, b), RgbaText(r, g, b)}

\* C25: in theme-matching mode the colour of a heading run is the captured
\* rgb()/rgba() colour as six upper-case hexadecimal digits, and 000000 when
\* the captured colour is absent, 'inherit', of another syntax or pure
\* white; it is never FFFFFF and never undefined.
C25_HeadingColor ==
    \A k \in 1..Len(emitted) :
        emitted[k].kind = "headingColor" /\ UseAppearance
        => LET level == emitted[k].run.level
               color == emitted[k].run.runs[1].color
           IN  /\ \A r \in Channels, g \in Channels, b \in Channels :
                     IsRgb(level, r, g, b)
                     => color = IF r = 255 /\ g = 255 /\ b = 255 THEN "000000"
                                ELSE Hex2(r) \o Hex2(g) \o Hex2(b)
               /\ (~\E r \in Channels, g \in Channels, b \in Channels :
                       IsRgb(level, r, g, b))
                  => color = "000000"
               /\ color \notin {"FFFFFF", ""}
               /\ Len(color) = 6

\* A heading run takes the colour of a captured rgba() value.
C25_Witness ==
    /\ emitted # <<>>
    /\ emitted[1].kind = "headingColor"
    /\ UseAppearance
    /\ IsRgb(emitted[1].run.level, 10, 128, 255)
    /\ ColorAt(obsidianFonts.headingColors, 1)[4] = "a"
    /\ emitted[1].run.runs[1].color = "0A80FF"

\* The headings of a list of blocks, in order: the level and the text of
\* each.
HeadingsOf(blocks) ==
    LET hs == SelectSeq(blocks, LAMBDA b : b.type = "heading")
    IN  [k \in 1..Len(hs) |-> <<hs[k].level, BlockText(hs[k])>>]

\* The heading lines of a text from line k on that lie outside the code
\* fences, as the claim has them: the level and the text of each.
RECURSIVE HeadingLines(_, _)
HeadingLines(lines, k) ==
    IF k > Len(lines) THEN <<>>
    ELSE IF FenceMatch(lines[k])
    THEN IF NextSameFence(lines, k + 1, FenceMarker(lines[k])) = 0 THEN <<>>
         ELSE HeadingLines(lines, NextSameFence(lines, k + 1, FenceMarker(lines[k])) + 1)
    ELSE (IF HeadingLevel(lines[k]) > 0
          THEN <<<<HeadingLevel(lines[k]), HeadingText(lines[k])>>>> ELSE <<>>)
         \o HeadingLines(lines, k + 1)

\* C26: in a finished conversion of a text with a details region and no
\* footnote reference, the heading lines of the text, those in the region
\* included, make headings of their levels, and the code blocks hold the
\* lines between the fences as they are in the text.
C26_DetailsContentAsOutside ==
    LET content == extractFootnotes(calls[1].markdown).content
    IN  /\ calls[1].pc = "done"
        /\ Openers(content) # {}
        /\ \A k \in 1..Len(content) : ~Includes(content[k], <<"[", "^">>)
        /\ FencesClosed(content, 1)
        => /\ HeadingsOf(Body(calls[1])) = HeadingLines(content, 1)
           /\ SelectSeq(MarksOf(Body(calls[1])), LAMBDA x : x.type = "code")
              = CodeOutline(content, 1)

\* C27: every superscript footnote number of a finished conversion, those in
\* the paragraphs of the footnote section included, has an entry of that
\* number in the section: writing the section assigns no new number.
C27_EveryNumberHasEntry ==
    calls[1].pc = "done"
    => LET shown   == References(calls[1].result)
           entries == SelectSeq(calls[1].result, IsFootnote)
       IN  \A k \in 1..Len(shown) :
              \E j \in 1..Len(entries) :
                  /\ IsDigit(shown[k].text[1])
                  /\ ParseInt(shown[k].text) = entries[j].level

(***************************************************************************)
(* The plugin: exportToWord and saveDocxFile (main.ts)                     *)
(*                                                                         *)
(* Two exports run on the one converter of the plugin; export e uses the   *)
(* convert call e.  Each position of an export is an await; a step of an   *)
(* export runs when no other code holds the thread (running = 0).          *)
(***************************************************************************)

\* customOutputFolder.replace(/^\/+|\/+$/g, '') (main.ts line 285)
RECURSIVE TrimSlashes(_)
TrimSlashes(s) ==
    IF s # <<>> /\ Head(s) = "/" THEN TrimSlashes(Tail(s))
    ELSE IF s # <<>> /\ s[Len(s)] = "/" THEN TrimSlashes(SubSeq(s, 1, Len(s) - 1))
    ELSE s

\* The folder Exports.
ExportsFolder == <<"E", "x", "p", "o", "r", "t", "s">>

\* The settings of the plugin for the runs of exportToWord.
ExportSettings ==
    {[defaultFontFamily |-> "Arial", defaultFontSize |-> 11, preserveFormatting |-> TRUE,
      useObsidianAppearance |-> FALSE, includeFilenameAsHeader |-> FALSE,
      outputLocation |-> o, customOutputFolder |-> d] :
        o \in {"same-folder", "vault-root", "custom-folder"},
        d \in {ExportsFolder, <<"/">> \o ExportsFolder \o <<"/">>, <<>>}}

\* The files exported: two convert, the conversion of the third rejects.
ExportFiles ==
    {File(<<"n">>, <<>>, DocPlain), File(<<"w">>, <<"d">>, DocWiki),
     File(<<"m">>, <<"d">>, DocNoGt)}

InitExport ==
    /\ filename = <<>>
    /\ resourceLoader = "none"
    /\ footnoteDefinitions = <<>>
    /\ usedFootnotes = <<>>
    /\ calls = [c \in Calls |-> IdleCall]
    /\ running = 0
    /\ emitted = <<>>
    /\ probeOut = {}
    /\ probe = NoInput
    /\ obsidianFonts = NullFonts
    /\ platform = Windows
    /\ settings \in ExportSettings
    /\ exports = [e \in Calls |-> IdleExport]
    /\ vault \in {[folders |-> f, files |-> {}] : f \in {{<<"d">>}, {<<"d">>, ExportsFolder}}}

\* `${sourceFile.basename}.docx` (main.ts line 272)
DocxName(file) == file.basename \o <<".", "d", "o", "c", "x">>

\* `${folder}/${filename}`, the filename alone for the root (main.ts lines
\* 279, 292).
PathIn(folder, file) ==
    IF folder # <<>> THEN folder \o <<"/">> \o DocxName(file) ELSE DocxName(file)

\* The arguments exportToWord passes to convert (main.ts lines 88-111).
ExportInput(file) ==
    [Input(file.markdown,
           IF settings.useObsidianAppearance THEN ThemeFonts ELSE NullFonts,
           "LA", "up")
     EXCEPT !.title = file.basename]

\* An export goes on to a position, with the steps it has taken added.
Goes(e, pc, steps) ==
    exports' = [exports EXCEPT ![e].pc = pc, ![e].trace = @ \o steps]

\* The catch of exportToWord (main.ts lines 117-120): the error notice.
Caught(e, step) == Goes(e, "done", <<step, "error notice">>)

\* exportToWord up to the await of vault.read (main.ts lines 83-88).
exportToWord(e, file) ==
    /\ running = 0
    /\ exports[e].pc = "idle"
    /\ exports' = [exports EXCEPT ![e] = [IdleExport EXCEPT !.pc = "read", !.file = file,
                                                            !.trace = <<"exporting notice">>]]
    /\ UNCHANGED <<settings, obsidianFonts, filename, resourceLoader,
                   footnoteDefinitions, usedFootnotes, platform, calls, running,
                   emitted, probe, probeOut, vault>>

\* vault.read resolves and exportToWord calls convert (main.ts lines 88-111).
ReadDone(e) ==
    /\ exports[e].pc = "read"
    /\ convert(e, ExportInput(exports[e].file))
    /\ Goes(e, "convert", <<"read">>)

\* vault.read rejects.
ReadFailed(e) ==
    /\ running = 0
    /\ exports[e].pc = "read"
    /\ Caught(e, "read failed")
    /\ UNCHANGED <<settings, obsidianFonts, filename, resourceLoader,
                   footnoteDefinitions, usedFootnotes, platform, calls, running,
                   emitted, probe, probeOut, vault>>

\* convert has returned the blob; saveDocxFile up to the await of
\* blob.arrayBuffer (main.ts lines 111-270).
ConvertDone(e) ==
    /\ running = 0
    /\ exports[e].pc = "convert"
    /\ calls[e].pc = "done"
    /\ Goes(e, "buffer", <<"convert">>)
    /\ UNCHANGED <<settings, obsidianFonts, filename, resourceLoader,
                   footnoteDefinitions, usedFootnotes, platform, calls, running,
                   emitted, probe, probeOut, vault>>

\* convert has rejected.
ConvertFailed(e) ==
    /\ running = 0
    /\ exports[e].pc = "convert"
    /\ calls[e].pc = "failed"
    /\ Caught(e, "convert failed")
    /\ UNCHANGED <<settings, obsidianFonts, filename, resourceLoader,
                   footnoteDefinitions, usedFootnotes, platform, calls, running,
                   emitted, probe, probeOut, vault>>

\* saveDocxFile from the bytes of the blob to the await of adapter.exists
\* or of adapter.writeBinary (main.ts lines 272-296).
BufferDone(e) ==
    LET file      == exports[e].file
        customDir == TrimSlashes(settings.customOutputFolder)
    IN  /\ running = 0
        /\ exports[e].pc = "buffer"
        /\ exports' = [exports EXCEPT
              ![e].pc   = IF settings.outputLocation = "custom-folder" /\ customDir # <<>>
                          THEN "exists" ELSE "write",
              ![e].path = CASE settings.outputLocation = "same-folder" ->
                                   PathIn(file.parent, file)
                            [] settings.outputLocation = "vault-root" -> DocxName(file)
                            [] OTHER -> PathIn(customDir, file)]
        /\ UNCHANGED <<settings, obsidianFonts, filename, resourceLoader,
                       footnoteDefinitions, usedFootnotes, platform, calls, running,
                       emitted, probe, probeOut, vault>>

\* adapter.exists resolves (main.ts lines 288-296): createFolder is called
\* when the folder is not there, writeBinary when it is.
ExistsDone(e) ==
    /\ running = 0
    /\ exports[e].pc = "exists"
    /\ Goes(e, IF TrimSlashes(settings.customOutputFolder) \in vault.folders
               THEN "write" ELSE "create", <<>>)
    /\ UNCHANGED <<settings, obsidianFonts, filename, resourceLoader,
                   footnoteDefinitions, usedFootnotes, platform, calls, running,
                   emitted, probe, probeOut, vault>>

\* vault.createFolder settles (main.ts lines 289-296): it rejects when the
\* folder is there already.
CreateDone(e) ==
    LET customDir == TrimSlashes(settings.customOutputFolder)
    IN  /\ running = 0
        /\ exports[e].pc = "create"
        /\ IF customDir \in vault.folders
           THEN Caught(e, "createFolder failed") /\ UNCHANGED vault
           ELSE /\ Goes(e, "write", <<>>)
                /\ vault' = [vault EXCEPT !.folders = @ \cup {customDir}]
        /\ UNCHANGED <<settings, obsidianFonts, filename, resourceLoader,
                       footnoteDefinitions, usedFootnotes, platform, calls, running,
                       emitted, probe, probeOut>>

\* As WriteDone below, with the success notice shown whether writeBinary
\* resolved or not.
WriteDoneM(e) ==
    /\ running = 0
    /\ exports[e].pc = "write"
    /\ \E ok \in BOOLEAN :
          /\ Goes(e, "done", <<IF ok THEN "write" ELSE "write failed", "success notice">>)
          /\ vault' = IF ok THEN [vault EXCEPT !.files = @ \cup {exports[e].path}] ELSE vault
    /\ UNCHANGED <<settings, obsidianFonts, filename, resourceLoader,
                   footnoteDefinitions, usedFootnotes, platform, calls, running,
                   emitted, probe, probeOut>>

\* adapter.writeBinary settles (main.ts lines 296, 114-120): the success
\* notice when it resolves, the catch when it rejects.
WriteDone(e) ==
    /\ running = 0
    /\ exports[e].pc = "write"
    /\ \/ /\ Goes(e, "done", <<"write", "success notice">>)
          /\ vault' = [vault EXCEPT !.files = @ \cup {exports[e].path}]
       \/ /\ Caught(e, "write failed")
          /\ UNCHANGED vault
    /\ UNCHANGED <<settings, obsidianFonts, filename, resourceLoader,
                   footnoteDefinitions, usedFootnotes, platform, calls, running,
                   emitted, probe, probeOut>>

\* Two exports, each begun when the user likes.
NextExport ==
    \E e \in Calls :
        \/ \E file \in ExportFiles : exportToWord(e, file)
        \/ ReadDone(e)
        \/ ReadFailed(e)
        \/ ScanLine(e)
        \/ ImageLoaded(e)
        \/ Resume(e)
        \/ ReturnTop(e)
        \/ Assemble(e)
        \/ Packed(e)
        \/ ConvertDone(e)
        \/ ConvertFailed(e)
        \/ BufferDone(e)
        \/ ExistsDone(e)
        \/ CreateDone(e)
        \/ WriteDone(e)

SpecExport == InitExport /\ [][NextExport]_vars

\* s holds the step x.
Has(s, x) == \E k \in 1..Len(s) : s[k] = x

\* The steps of an export that fail.
Failures == {"read failed", "convert failed", "createFolder failed", "write failed"}

\* C28: the steps of an export are taken in the order read, convert, write,
\* success notice, the file being in the vault when the success notice is
\* shown; an export in which a step failed ends with the error notice and
\* shows no success notice, and writes nothing when the read or the
\* conversion failed.
C28_ExportOrder ==
    \A e \in Calls :
        LET trace == exports[e].trace
        IN  /\ Has(trace, "success notice")
               => /\ trace = <<"exporting notice", "read", "convert", "write",
                               "success notice">>
                  /\ exports[e].path \in vault.files
            /\ (\E x \in Failures : Has(trace, x))
               => /\ exports[e].pc = "done"
                  /\ trace[Len(trace)] = "error notice"
                  /\ ~Has(trace, "success notice")
            /\ Has(trace, "read failed") \/ Has(trace, "convert failed")
               => ~Has(trace, "write")
            /\ exports[e].pc = "done"
               => trace[Len(trace)] \in {"success notice", "error notice"}

\* One export has written its file and shown the success notice, the other
\* has shown the error notice for a conversion that failed.
C28_Witness ==
    /\ Has(exports[1].trace, "success notice")
    /\ Has(exports[2].trace, "convert failed")
    /\ exports[2].pc = "done"

\* C29: with the output location 'custom-folder', an export in which the
\* read, the conversion and the write did not fail ends with its file
\* written, whatever the other export does: createFolder does not fail.
C29_BothExportsWritten ==
    \A e \in Calls :
        /\ settings.outputLocation = "custom-folder"
        /\ exports[e].pc = "done"
        /\ \A x \in {"read failed", "convert failed", "write failed"} :
              ~Has(exports[e].trace, x)
        => /\ exports[e].path \in vault.files
           /\ Has(exports[e].trace, "success notice")

\* The lines of a text that lie between a fence line and the next fence
\* line.
FencedLines(lines) ==
    {k \in 1..Len(lines) :
        /\ ~FenceMatch(lines[k])
        /\ Cardinality({j \in 1..(k - 1) : FenceMatch(lines[j])}) % 2 = 1
        /\ NextFence(lines, k + 1) # 0}

\* C30: in a finished conversion of a text without details whose fences are
\* fences of backticks, each closed, the code blocks hold the lines between
\* the fences of the text as it was given, the lines of the form of a
\* footnote definition included, and no definition is taken from them.
C30_FencesKeepFootnoteLines ==
    LET lines == calls[1].markdown
    IN  /\ calls[1].pc = "done"
        /\ Openers(lines) = {}
        /\ BacktickFences(lines)
        /\ FencesClosed(lines, 1)
        => /\ SelectSeq(MarksOf(Body(calls[1])), LAMBDA x : x.type = "code")
              = CodeOutline(lines, 1)
           /\ \A k \in FencedLines(lines) :
                 IsDefinitionLine(lines[k])
                 => MapGet(footnoteDefinitions, LabelOf(lines[k])) = <<>>

====
